---- MODULE Spec2Model ----
(***************************************************************************)
(* Process supervision of HeyJamie's Tauri host (src-tauri/src/lib.rs):    *)
(* run_llm_agent, cancel_llm_agent and graceful_kill, with the helper      *)
(* process, its three pipes and the stderr drain thread as the             *)
(* environment.                                                            *)
(***************************************************************************)
EXTENDS Integers, Sequences, FiniteSets, TLC

(***************************************************************************)
(* Bounds of the model.                                                    *)
(***************************************************************************)
\* capacity of the child's stdout pipe, in characters
StdoutCap == 2
\* capacity of the child's stderr pipe, in lines
StderrCap == 1
\* capacity of the child's stdin pipe, in chunks
StdinCap == 1
\* length of the serialized request, in chunks
PayloadLen == 2
\* number of poll-loop sleeps that last exactly PollIntervalMs; a later sleep
\* oversleeps up to the budget boundary
MaxExactSleeps == 1
\* lines of a text handed to extract_transcript
MaxLines == 2
\* characters of a text handed to truncate_for_log
MaxLogChars == 3
\* largest max_len handed to truncate_for_log, in bytes
MaxLogLen == 4

(***************************************************************************)
(* Program constants.                                                      *)
(***************************************************************************)
GracePolls == 40
PollIntervalMs == 50
MinTimeoutMs == 1000
BrowserosActTimeoutMs == 180000
NavigateTimeoutMs == 30000
ExcalidrawTimeoutMs == 120000
IntentTimeoutMs == 90000
TopicShiftTimeoutMs == 15000
GenericTimeoutMs == 45000

\* the in-flight requests of the session (tauri commands sharing LlmAgentState)
Reqs == {"A"}

\* the run_llm_agent tasks the host can have at once: the request of Reqs and one
\* that the frontend invokes while the first is still running
Tasks == Reqs \cup {"B"}

\* the other operations of the host that supervise a process: the canvas service
\* held by run(), test_mcp_config and transcribe_audio
Svc == "excalidraw"
McpTest == "mcp-test"
Whisper == "whisper"
Helpers == {McpTest, Whisper}
Procs == Tasks \cup {Svc} \cup Helpers

\* Option<String>::None for payload.mode, and an unset environment variable
NoneMode == "<none>"
Unset == <<"<unset>">>

\* the characters a child writes to stdout: whitespace and a visible character
Chars == {" ", "a"}

(***************************************************************************)
(* Pure functions.                                                         *)
(***************************************************************************)
IsWhitespace(c) == c \in {" ", "\n", "\t", "\r"}

RECURSIVE TrimStart(_)
TrimStart(s) ==
    IF s # <<>> /\ IsWhitespace(Head(s)) THEN TrimStart(Tail(s)) ELSE s

RECURSIVE TrimEnd(_)
TrimEnd(s) ==
    IF s # <<>> /\ IsWhitespace(s[Len(s)])
    THEN TrimEnd(SubSeq(s, 1, Len(s) - 1))
    ELSE s

\* trim that leaves the trailing whitespace
TrimStartOnly(s) == TrimStart(s)

\* str::trim
Trim(s) == TrimEnd(TrimStart(s))

DigitValue(c) ==
    CASE c = "0" -> 0 [] c = "1" -> 1 [] c = "2" -> 2 [] c = "3" -> 3
      [] c = "4" -> 4 [] c = "5" -> 5 [] c = "6" -> 6 [] c = "7" -> 7
      [] c = "8" -> 8 [] c = "9" -> 9 [] OTHER -> -1

RECURSIVE ParseDigits(_, _)
ParseDigits(s, acc) ==
    IF s = <<>> THEN acc
    ELSE IF DigitValue(Head(s)) < 0 THEN -1
    ELSE ParseDigits(Tail(s), acc * 10 + DigitValue(Head(s)))

\* str::parse::<u128>: an optional '+', then one or more ASCII digits;
\* -1 stands for Err
ParseU128(s) ==
    LET body == IF s # <<>> /\ Head(s) = "+" THEN Tail(s) ELSE s
    IN  IF body = <<>> THEN -1 ELSE ParseDigits(body, 0)

IsBrowserosMode(mode) == mode = "browseros-act"
IsNavigateMode(mode) == mode = "browseros-navigate"
IsExcalidrawMode(mode) == mode = "excalidraw-act"
IsIntentMode(mode) == mode = "browseros-intent"
IsTopicShiftMode(mode) == mode = "topic-shift-detect"

\* DefaultTimeoutMs with every mode given the generic default
DefaultTimeoutMsGeneric(mode) == GenericTimeoutMs

DefaultTimeoutMs(mode) ==
    IF IsBrowserosMode(mode) THEN BrowserosActTimeoutMs
    ELSE IF IsNavigateMode(mode) THEN NavigateTimeoutMs
    ELSE IF IsExcalidrawMode(mode) THEN ExcalidrawTimeoutMs
    ELSE IF IsIntentMode(mode) THEN IntentTimeoutMs
    ELSE IF IsTopicShiftMode(mode) THEN TopicShiftTimeoutMs
    ELSE GenericTimeoutMs

TimeoutEnvKey(mode) ==
    IF IsBrowserosMode(mode) \/ IsNavigateMode(mode) THEN "HEYJAMIE_BROWSEROS_TIMEOUT_MS"
    ELSE IF IsExcalidrawMode(mode) THEN "HEYJAMIE_EXCALIDRAW_TIMEOUT_MS"
    ELSE IF IsIntentMode(mode) THEN "HEYJAMIE_INTENT_TIMEOUT_MS"
    ELSE IF IsTopicShiftMode(mode) THEN "HEYJAMIE_TOPIC_SHIFT_TIMEOUT_MS"
    ELSE "HEYJAMIE_LLM_TIMEOUT_MS"

\* ResolveTimeoutMs without the filter of line 751
ResolveTimeoutMsNoFloor(mode, raw) ==
    LET parsed == IF raw = Unset THEN -1 ELSE ParseU128(Trim(raw))
    IN  IF parsed >= 0 THEN parsed ELSE DefaultTimeoutMs(mode)

\* env::var(key).ok().and_then(parse).filter(>= 1000).unwrap_or(default)
ResolveTimeoutMs(mode, raw) ==
    LET parsed == IF raw = Unset THEN -1 ELSE ParseU128(Trim(raw))
    IN  IF parsed >= MinTimeoutMs THEN parsed ELSE DefaultTimeoutMs(mode)

\* the modes and override values the supervised requests are run with
RunModes == {"topic-shift-detect"}
RunOverrides == {Unset, <<"1", "0", "0", "0">>}


(***************************************************************************)
(* State.                                                                  *)
(***************************************************************************)
VARIABLES
    cancel_requested,   \* LlmAgentState.cancel_requested
    pc,                 \* position of each request's blocking task
    ret,                \* branch of the poll loop that called graceful_kill
    proc,               \* the child: none, running, blocked, exited (zombie), reaped
    status,             \* how the child ended: none, zero, nonzero, signalled
    sigs,               \* signals sent to the child's pid, in order
    exitPhase,          \* when the child ended: none, before, window, late, after, forced
    stdinBuf,           \* unread chunks in the stdin pipe
    sent,               \* chunks of the request written so far
    stdout,             \* content of the stdout pipe
    stderrBuf,          \* unread lines in the stderr pipe
    drain,              \* stderr_thread: none, running, finished, joined
    timeout_ms,         \* resolved budget
    elapsed,            \* started_at.elapsed().as_millis()
    polls,              \* completed iterations of graceful_kill's loop
    loopExit,           \* how that loop was left: none, exited, error, exhausted
    terminal_error,     \* the local terminal_error
    stdout_text,        \* the local stdout_text
    result,             \* what the request returned
    cancelMark,         \* history: cancel calls since this request's reset
    payload_mode,       \* payload.mode of the request whose budget is resolved
    env_value,          \* value of the mode's environment variable, or Unset
    budget,             \* what lines 719-752 computed from them
    excalidraw_child,   \* ExcalidrawServerState.child
    config,             \* what start_excalidraw_server found on disk
    orphans,            \* canvas processes still running whose handle was dropped
    output,             \* the text handed to extract_transcript
    transcript,         \* what extract_transcript returned
    fragment,           \* what clean_transcript_fragment returned for one line
    log_text,           \* the text handed to truncate_for_log
    log_max_len,        \* its max_len
    logged              \* what truncate_for_log did with them

agentVars == <<cancel_requested, pc, ret, proc, status, sigs, exitPhase, stdinBuf, sent,
               stdout, stderrBuf, drain, timeout_ms, elapsed, polls, loopExit,
               terminal_error, stdout_text, result, cancelMark>>

budgetVars == <<payload_mode, env_value, budget>>
serviceVars == <<excalidraw_child, config, orphans>>
transcriptVars == <<output, transcript, fragment>>
logVars == <<log_text, log_max_len, logged>>
auxVars == <<budgetVars, serviceVars, transcriptVars, logVars>>
vars == <<agentVars, auxVars>>

Pending == [kind |-> "pending", text |-> <<>>]
Err(kind) == [kind |-> kind, text |-> <<>>]
Ok(text) == [kind |-> "Ok", text |-> text]

\* the child has been spawned and its exit has not been observed by try_wait or wait
InFlight(r) == pc[r] # "done" /\ proc[r] \in {"running", "blocked", "exited"}

AgentInit ==
    /\ cancel_requested = FALSE
    /\ pc = [r \in Procs |-> "idle"]
    /\ ret = [r \in Procs |-> "none"]
    /\ proc = [r \in Procs |-> "none"]
    /\ status = [r \in Procs |-> "none"]
    /\ sigs = [r \in Procs |-> <<>>]
    /\ exitPhase = [r \in Procs |-> "none"]
    /\ stdinBuf = [r \in Procs |-> 0]
    /\ sent = [r \in Procs |-> 0]
    /\ stdout = [r \in Procs |-> <<>>]
    /\ stderrBuf = [r \in Procs |-> 0]
    /\ drain = [r \in Procs |-> "none"]
    /\ timeout_ms = [r \in Procs |-> 0]
    /\ elapsed = [r \in Procs |-> 0]
    /\ polls = [r \in Procs |-> 0]
    /\ loopExit = [r \in Procs |-> "none"]
    /\ terminal_error = [r \in Procs |-> "none"]
    /\ stdout_text = [r \in Procs |-> <<>>]
    /\ result = [r \in Procs |-> Pending]
    /\ cancelMark = [r \in Procs |-> "no"]

(***************************************************************************)
(* cancel_llm_agent                                                        *)
(***************************************************************************)
\* CancelLlmAgent sending SIGTERM to the child of every request
CancelLlmAgentSignals ==
    /\ cancel_requested' = TRUE
    /\ sigs' = [r \in Procs |-> IF r \in Reqs THEN Append(sigs[r], "TERM") ELSE sigs[r]]
    /\ UNCHANGED auxVars
    /\ UNCHANGED <<loopExit, pc, ret, proc, status, exitPhase, stdinBuf, sent, stdout,
                   stderrBuf, drain, timeout_ms, elapsed, polls, terminal_error,
                   stdout_text, result, cancelMark>>

\* lines 341-344
CancelLlmAgent ==
    /\ cancel_requested' = TRUE
    /\ cancelMark' = [r \in Procs |->
            IF r \notin Tasks THEN cancelMark[r]
            ELSE IF InFlight(r) THEN "inflight"
            ELSE IF pc[r] \in {"prepare", "spawn"} /\ cancelMark[r] # "inflight" THEN "early"
            ELSE cancelMark[r]]
    /\ UNCHANGED auxVars
    /\ UNCHANGED <<loopExit, pc, ret, proc, status, sigs, exitPhase, stdinBuf, sent, stdout,
                   stderrBuf, drain, timeout_ms, elapsed, polls, terminal_error,
                   stdout_text, result>>

(***************************************************************************)
(* The helper process and the kernel's pipes.                              *)
(***************************************************************************)
ChildAlive(r) == pc[r] # "done" /\ proc[r] = "running"

\* the phase of graceful_kill in which an exit can still be seen by one of its polls
\* ("window"), the last sleep of its grace window ("late"), what precedes the
\* signal ("before") and what follows the window ("after")
ExitPhaseNow(r) ==
    IF pc[r] = "gk_poll" \/ (pc[r] = "gk_sleep" /\ polls[r] + 1 < GracePolls) THEN "window"
    ELSE IF pc[r] = "gk_sleep" THEN "late"
    ELSE IF pc[r] \in {"gk_kill", "gk_wait"} THEN "after"
    ELSE "before"

ChildReadStdin(r) ==
    /\ ChildAlive(r)
    /\ stdinBuf[r] > 0
    /\ stdinBuf' = [stdinBuf EXCEPT ![r] = @ - 1]
    /\ UNCHANGED auxVars
    /\ UNCHANGED <<loopExit, cancel_requested, pc, ret, proc, status, sigs, exitPhase, sent, stdout,
                   stderrBuf, drain, timeout_ms, elapsed, polls, terminal_error,
                   stdout_text, result, cancelMark>>

ChildWriteStdout(r) ==
    /\ ChildAlive(r)
    /\ Len(stdout[r]) < StdoutCap
    /\ \E c \in Chars : stdout' = [stdout EXCEPT ![r] = Append(@, c)]
    /\ UNCHANGED auxVars
    /\ UNCHANGED <<loopExit, cancel_requested, pc, ret, proc, status, sigs, exitPhase, stdinBuf, sent,
                   stderrBuf, drain, timeout_ms, elapsed, polls, terminal_error,
                   stdout_text, result, cancelMark>>

\* a write to the full stdout pipe blocks the child: nobody reads it before the exit
ChildBlockOnStdout(r) ==
    /\ ChildAlive(r)
    /\ Len(stdout[r]) = StdoutCap
    /\ proc' = [proc EXCEPT ![r] = "blocked"]
    /\ UNCHANGED auxVars
    /\ UNCHANGED <<loopExit, cancel_requested, pc, ret, status, sigs, exitPhase, stdinBuf, sent, stdout,
                   stderrBuf, drain, timeout_ms, elapsed, polls, terminal_error,
                   stdout_text, result, cancelMark>>

\* a line goes into the stderr pipe while its read end is open and it has room
ChildWriteStderr(r) ==
    /\ ChildAlive(r)
    /\ drain[r] \in {"none", "running"}
    /\ stderrBuf[r] < StderrCap
    /\ stderrBuf' = [stderrBuf EXCEPT ![r] = @ + 1]
    /\ UNCHANGED auxVars
    /\ UNCHANGED <<loopExit, cancel_requested, pc, ret, proc, status, sigs, exitPhase, stdinBuf, sent,
                   stdout, drain, timeout_ms, elapsed, polls, terminal_error,
                   stdout_text, result, cancelMark>>

\* the child exits by itself (also from a SIGTERM handler), with any exit code
ChildExit(r) ==
    /\ ChildAlive(r)
    /\ \E st \in {"zero", "nonzero"} : status' = [status EXCEPT ![r] = st]
    /\ proc' = [proc EXCEPT ![r] = "exited"]
    /\ exitPhase' = [exitPhase EXCEPT ![r] = ExitPhaseNow(r)]
    /\ stdinBuf' = [stdinBuf EXCEPT ![r] = 0]
    /\ UNCHANGED auxVars
    /\ UNCHANGED <<loopExit, cancel_requested, pc, ret, sigs, sent, stdout, stderrBuf, drain,
                   timeout_ms, elapsed, polls, terminal_error, stdout_text, result,
                   cancelMark>>

\* SIGTERM ends a child that does not handle it, blocked in a write or not
ChildDieOnSigterm(r) ==
    /\ pc[r] # "done"
    /\ proc[r] \in {"running", "blocked"}
    /\ sigs[r] # <<>>
    /\ status' = [status EXCEPT ![r] = "signalled"]
    /\ proc' = [proc EXCEPT ![r] = "exited"]
    /\ exitPhase' = [exitPhase EXCEPT ![r] = ExitPhaseNow(r)]
    /\ stdinBuf' = [stdinBuf EXCEPT ![r] = 0]
    /\ UNCHANGED auxVars
    /\ UNCHANGED <<loopExit, cancel_requested, pc, ret, sigs, sent, stdout, stderrBuf, drain,
                   timeout_ms, elapsed, polls, terminal_error, stdout_text, result,
                   cancelMark>>


(***************************************************************************)
(* The stderr drain thread (lines 703-718).                                *)
(***************************************************************************)
DrainLine(r) ==
    /\ drain[r] = "running"
    /\ stderrBuf[r] > 0
    /\ stderrBuf' = [stderrBuf EXCEPT ![r] = @ - 1]
    /\ UNCHANGED auxVars
    /\ UNCHANGED <<loopExit, cancel_requested, pc, ret, proc, status, sigs, exitPhase, stdinBuf, sent,
                   stdout, drain, timeout_ms, elapsed, polls, terminal_error,
                   stdout_text, result, cancelMark>>

\* reader.lines() ends at end-of-stream: the pipe is empty and its writer is gone
DrainEof(r) ==
    /\ drain[r] = "running"
    /\ stderrBuf[r] = 0
    /\ proc[r] \in {"exited", "reaped"}
    /\ drain' = [drain EXCEPT ![r] = "finished"]
    /\ UNCHANGED auxVars
    /\ UNCHANGED <<loopExit, cancel_requested, pc, ret, proc, status, sigs, exitPhase, stdinBuf, sent,
                   stdout, stderrBuf, timeout_ms, elapsed, polls, terminal_error,
                   stdout_text, result, cancelMark>>

\* line 715: a line that cannot be read (not UTF-8) ends the thread, whose reader
\* is dropped with what the pipe still holds
DrainReadError(r) ==
    /\ drain[r] = "running"
    /\ stderrBuf[r] > 0
    /\ stderrBuf' = [stderrBuf EXCEPT ![r] = 0]
    /\ drain' = [drain EXCEPT ![r] = "finished"]
    /\ UNCHANGED auxVars
    /\ UNCHANGED <<loopExit, cancel_requested, pc, ret, proc, status, sigs, exitPhase, stdinBuf,
                   sent, stdout, timeout_ms, elapsed, polls, terminal_error,
                   stdout_text, result, cancelMark>>

(***************************************************************************)
(* graceful_kill (lines 348-366).                                          *)
(***************************************************************************)
\* GkSigterm without the signal
GkSigtermSkipped(r) ==
    /\ pc[r] = "gk_term"
    /\ polls' = [polls EXCEPT ![r] = 0]
    /\ loopExit' = [loopExit EXCEPT ![r] = "none"]
    /\ pc' = [pc EXCEPT ![r] = "gk_poll"]
    /\ UNCHANGED auxVars
    /\ UNCHANGED <<cancel_requested, ret, proc, status, sigs, exitPhase, stdinBuf, sent,
                   stdout, stderrBuf, drain, timeout_ms, elapsed, terminal_error,
                   stdout_text, result, cancelMark>>

\* libc::kill(pid, SIGTERM)
GkSigterm(r) ==
    /\ pc[r] = "gk_term"
    /\ sigs' = [sigs EXCEPT ![r] = Append(@, "TERM")]
    /\ polls' = [polls EXCEPT ![r] = 0]
    /\ loopExit' = [loopExit EXCEPT ![r] = "none"]
    /\ pc' = [pc EXCEPT ![r] = "gk_poll"]
    /\ UNCHANGED auxVars
    /\ UNCHANGED <<cancel_requested, ret, proc, status, exitPhase, stdinBuf, sent, stdout,
                   stderrBuf, drain, timeout_ms, elapsed, terminal_error, stdout_text,
                   result, cancelMark>>

\* GkPollExited taking Ok(Some(_)) for Ok(None)
GkPollExitedIgnored(r) ==
    /\ pc[r] = "gk_poll"
    /\ proc[r] = "exited"
    /\ pc' = [pc EXCEPT ![r] = "gk_sleep"]
    /\ UNCHANGED auxVars
    /\ UNCHANGED <<loopExit, cancel_requested, ret, proc, status, sigs, exitPhase, stdinBuf,
                   sent, stdout, stderrBuf, drain, timeout_ms, elapsed, polls,
                   terminal_error, stdout_text, result, cancelMark>>

\* GkPollExited going on to the forced kill
GkPollExitedThenKill(r) ==
    /\ pc[r] = "gk_poll"
    /\ proc[r] = "exited"
    /\ proc' = [proc EXCEPT ![r] = "reaped"]
    /\ loopExit' = [loopExit EXCEPT ![r] = "exited"]
    /\ polls' = [polls EXCEPT ![r] = 0]
    /\ pc' = [pc EXCEPT ![r] = "gk_kill"]
    /\ UNCHANGED auxVars
    /\ UNCHANGED <<cancel_requested, ret, status, sigs, exitPhase, stdinBuf, sent, stdout,
                   stderrBuf, drain, timeout_ms, elapsed, terminal_error,
                   stdout_text, result, cancelMark>>

\* try_wait() = Ok(Some(_)): the child is reaped and graceful_kill returns
GkPollExited(r) ==
    /\ pc[r] = "gk_poll"
    /\ proc[r] = "exited"
    /\ proc' = [proc EXCEPT ![r] = "reaped"]
    /\ loopExit' = [loopExit EXCEPT ![r] = "exited"]
    /\ polls' = [polls EXCEPT ![r] = 0]
    /\ pc' = [pc EXCEPT ![r] = "gk_ret"]
    /\ UNCHANGED auxVars
    /\ UNCHANGED <<cancel_requested, ret, status, sigs, exitPhase, stdinBuf, sent, stdout,
                   stderrBuf, drain, timeout_ms, elapsed, terminal_error,
                   stdout_text, result, cancelMark>>

\* try_wait() = Ok(None)
GkPollRunning(r) ==
    /\ pc[r] = "gk_poll"
    /\ proc[r] \in {"running", "blocked"}
    /\ pc' = [pc EXCEPT ![r] = "gk_sleep"]
    /\ UNCHANGED auxVars
    /\ UNCHANGED <<loopExit, cancel_requested, ret, proc, status, sigs, exitPhase, stdinBuf, sent,
                   stdout, stderrBuf, drain, timeout_ms, elapsed, polls, terminal_error,
                   stdout_text, result, cancelMark>>

\* try_wait() = Err(_): break
GkPollError(r) ==
    /\ pc[r] = "gk_poll"
    /\ loopExit' = [loopExit EXCEPT ![r] = "error"]
    /\ polls' = [polls EXCEPT ![r] = 0]
    /\ pc' = [pc EXCEPT ![r] = "gk_kill"]
    /\ UNCHANGED auxVars
    /\ UNCHANGED <<cancel_requested, ret, proc, status, sigs, exitPhase, stdinBuf, sent,
                   stdout, stderrBuf, drain, timeout_ms, elapsed, terminal_error,
                   stdout_text, result, cancelMark>>

\* sleep(50 ms), then the next of the 40 iterations or the end of the loop
GkSleep(r) ==
    /\ pc[r] = "gk_sleep"
    /\ IF polls[r] + 1 < GracePolls
       THEN /\ polls' = [polls EXCEPT ![r] = @ + 1]
            /\ pc' = [pc EXCEPT ![r] = "gk_poll"]
            /\ UNCHANGED loopExit
       ELSE /\ polls' = [polls EXCEPT ![r] = 0]
            /\ pc' = [pc EXCEPT ![r] = "gk_kill"]
            /\ loopExit' = [loopExit EXCEPT ![r] = "exhausted"]
    /\ UNCHANGED auxVars
    /\ UNCHANGED <<cancel_requested, ret, proc, status, sigs, exitPhase, stdinBuf, sent,
                   stdout, stderrBuf, drain, timeout_ms, elapsed, terminal_error,
                   stdout_text, result, cancelMark>>

\* child.kill(): SIGKILL to the pid, which ends a child that still runs
GkKill(r) ==
    /\ pc[r] = "gk_kill"
    /\ sigs' = [sigs EXCEPT ![r] = Append(@, "KILL")]
    /\ IF proc[r] \in {"running", "blocked"}
       THEN /\ proc' = [proc EXCEPT ![r] = "exited"]
            /\ status' = [status EXCEPT ![r] = "signalled"]
            /\ exitPhase' = [exitPhase EXCEPT ![r] = "forced"]
            /\ stdinBuf' = [stdinBuf EXCEPT ![r] = 0]
       ELSE UNCHANGED <<proc, status, exitPhase, stdinBuf>>
    /\ pc' = [pc EXCEPT ![r] = "gk_wait"]
    /\ UNCHANGED auxVars
    /\ UNCHANGED <<loopExit, cancel_requested, ret, sent, stdout, stderrBuf, drain, timeout_ms,
                   elapsed, polls, terminal_error, stdout_text, result, cancelMark>>

\* GkWait without the reaping wait
GkWaitNoReap(r) ==
    /\ pc[r] = "gk_wait"
    /\ pc' = [pc EXCEPT ![r] = "gk_ret"]
    /\ UNCHANGED auxVars
    /\ UNCHANGED <<loopExit, cancel_requested, ret, proc, status, sigs, exitPhase, stdinBuf,
                   sent, stdout, stderrBuf, drain, timeout_ms, elapsed, polls,
                   terminal_error, stdout_text, result, cancelMark>>

\* child.wait(): blocks until the child has ended, and reaps it
GkWait(r) ==
    /\ pc[r] = "gk_wait"
    /\ proc[r] = "exited"
    /\ proc' = [proc EXCEPT ![r] = "reaped"]
    /\ pc' = [pc EXCEPT ![r] = "gk_ret"]
    /\ UNCHANGED auxVars
    /\ UNCHANGED <<loopExit, cancel_requested, ret, status, sigs, exitPhase, stdinBuf, sent, stdout,
                   stderrBuf, drain, timeout_ms, elapsed, polls, terminal_error,
                   stdout_text, result, cancelMark>>


(***************************************************************************)
(* run_llm_agent (lines 645-805).                                          *)
(***************************************************************************)
\* a request starts with fresh locals and the flag stored as `flag`
StartRequest(r, flag) ==
    /\ pc[r] \in {"idle", "done"}
    /\ cancel_requested' = flag
    /\ cancelMark' = [cancelMark EXCEPT ![r] = IF cancel_requested THEN "stale" ELSE "no"]
    /\ pc' = [pc EXCEPT ![r] = "prepare"]
    /\ ret' = [ret EXCEPT ![r] = "none"]
    /\ proc' = [proc EXCEPT ![r] = "none"]
    /\ status' = [status EXCEPT ![r] = "none"]
    /\ sigs' = [sigs EXCEPT ![r] = <<>>]
    /\ exitPhase' = [exitPhase EXCEPT ![r] = "none"]
    /\ stdinBuf' = [stdinBuf EXCEPT ![r] = 0]
    /\ sent' = [sent EXCEPT ![r] = 0]
    /\ stdout' = [stdout EXCEPT ![r] = <<>>]
    /\ stderrBuf' = [stderrBuf EXCEPT ![r] = 0]
    /\ drain' = [drain EXCEPT ![r] = "none"]
    /\ timeout_ms' = [timeout_ms EXCEPT ![r] = 0]
    /\ elapsed' = [elapsed EXCEPT ![r] = 0]
    /\ polls' = [polls EXCEPT ![r] = 0]
    /\ loopExit' = [loopExit EXCEPT ![r] = "none"]
    /\ terminal_error' = [terminal_error EXCEPT ![r] = "none"]
    /\ stdout_text' = [stdout_text EXCEPT ![r] = <<>>]
    /\ result' = [result EXCEPT ![r] = Pending]
    /\ UNCHANGED auxVars

\* RunLlmAgent without the store(false) of line 651
RunLlmAgentNoReset(r) == StartRequest(r, cancel_requested)

\* lines 650-653: the flag is reset and the blocking task is started
RunLlmAgent(r) == StartRequest(r, FALSE)

\* lines 654-678: the script and the MCP config path are resolved, or the request fails
Prepare(r) ==
    /\ pc[r] = "prepare"
    /\ \E ok \in BOOLEAN :
          IF ok
          THEN /\ pc' = [pc EXCEPT ![r] = "spawn"]
               /\ UNCHANGED result
          ELSE /\ pc' = [pc EXCEPT ![r] = "done"]
               /\ result' = [result EXCEPT ![r] = Err("SetupFailed")]
    /\ UNCHANGED auxVars
    /\ UNCHANGED <<loopExit, cancel_requested, ret, proc, status, sigs, exitPhase, stdinBuf, sent,
                   stdout, stderrBuf, drain, timeout_ms, elapsed, polls, terminal_error,
                   stdout_text, cancelMark>>

\* lines 680-687: Command::spawn with three pipes
SpawnChild(r) ==
    /\ pc[r] = "spawn"
    /\ \E ok \in BOOLEAN :
          IF ok
          THEN /\ pc' = [pc EXCEPT ![r] = "write"]
               /\ proc' = [proc EXCEPT ![r] = "running"]
               /\ UNCHANGED result
          ELSE /\ pc' = [pc EXCEPT ![r] = "done"]
               /\ result' = [result EXCEPT ![r] = Err("SpawnFailed")]
               /\ UNCHANGED proc
    /\ UNCHANGED auxVars
    /\ UNCHANGED <<loopExit, cancel_requested, ret, status, sigs, exitPhase, stdinBuf, sent, stdout,
                   stderrBuf, drain, timeout_ms, elapsed, polls, terminal_error,
                   stdout_text, cancelMark>>

\* lines 689-692: write_all puts what fits into the pipe and blocks while it is full
WriteStdinChunk(r) ==
    /\ pc[r] = "write"
    /\ sent[r] < PayloadLen
    /\ proc[r] \in {"running", "blocked"}
    /\ stdinBuf[r] < StdinCap
    /\ sent' = [sent EXCEPT ![r] = @ + 1]
    /\ stdinBuf' = [stdinBuf EXCEPT ![r] = @ + 1]
    /\ UNCHANGED auxVars
    /\ UNCHANGED <<loopExit, cancel_requested, pc, ret, proc, status, sigs, exitPhase, stdout,
                   stderrBuf, drain, timeout_ms, elapsed, polls, terminal_error,
                   stdout_text, result, cancelMark>>

\* line 692: the read end is gone, write_all fails and `?` returns, dropping child
WriteStdinFailed(r) ==
    /\ pc[r] = "write"
    /\ sent[r] < PayloadLen
    /\ proc[r] = "exited"
    /\ result' = [result EXCEPT ![r] = Err("WriteFailed")]
    /\ pc' = [pc EXCEPT ![r] = "done"]
    /\ UNCHANGED auxVars
    /\ UNCHANGED <<loopExit, cancel_requested, ret, proc, status, sigs, exitPhase, stdinBuf, sent,
                   stdout, stderrBuf, drain, timeout_ms, elapsed, polls, terminal_error,
                   stdout_text, cancelMark>>

\* the write end of the child's stdin is open while the binding `stdin` of
\* lines 689-693 is alive; it is dropped when the block is left, by `?` or at its end
StdinOpen(r) == pc[r] = "write"

\* CloseStdin leaving the block before write_all is through
CloseStdinEarly(r) ==
    /\ pc[r] = "write"
    /\ pc' = [pc EXCEPT ![r] = "capture"]
    /\ UNCHANGED auxVars
    /\ UNCHANGED <<loopExit, cancel_requested, ret, proc, status, sigs, exitPhase, stdinBuf,
                   sent, stdout, stderrBuf, drain, timeout_ms, elapsed, polls,
                   terminal_error, stdout_text, result, cancelMark>>

\* line 693: the request is written and stdin goes out of scope, which closes it
CloseStdin(r) ==
    /\ pc[r] = "write"
    /\ sent[r] = PayloadLen
    /\ pc' = [pc EXCEPT ![r] = "capture"]
    /\ UNCHANGED auxVars
    /\ UNCHANGED <<loopExit, cancel_requested, ret, proc, status, sigs, exitPhase, stdinBuf, sent,
                   stdout, stderrBuf, drain, timeout_ms, elapsed, polls, terminal_error,
                   stdout_text, result, cancelMark>>

\* lines 695-718: both streams are taken (piped streams are always there) and the
\* drain thread is started
StartDrain(r) ==
    /\ pc[r] = "capture"
    /\ drain' = [drain EXCEPT ![r] = "running"]
    /\ pc' = [pc EXCEPT ![r] = "budget"]
    /\ UNCHANGED auxVars
    /\ UNCHANGED <<loopExit, cancel_requested, ret, proc, status, sigs, exitPhase, stdinBuf, sent,
                   stdout, stderrBuf, timeout_ms, elapsed, polls, terminal_error,
                   stdout_text, result, cancelMark>>

\* lines 719-754: the budget is resolved and the clock is started
ResolveBudget(r) ==
    /\ pc[r] = "budget"
    /\ \E mode \in RunModes, raw \in RunOverrides :
          timeout_ms' = [timeout_ms EXCEPT ![r] = ResolveTimeoutMs(mode, raw)]
    /\ elapsed' = [elapsed EXCEPT ![r] = 0]
    /\ terminal_error' = [terminal_error EXCEPT ![r] = "none"]
    /\ pc' = [pc EXCEPT ![r] = "loop_cancel"]
    /\ UNCHANGED auxVars
    /\ UNCHANGED <<loopExit, cancel_requested, ret, proc, status, sigs, exitPhase, stdinBuf, sent,
                   stdout, stderrBuf, drain, polls, stdout_text, result, cancelMark>>

\* CheckCancel with the clock read before the flag
CheckCancelTimeoutFirst(r) ==
    /\ pc[r] = "loop_cancel"
    /\ IF elapsed[r] > timeout_ms[r]
       THEN /\ pc' = [pc EXCEPT ![r] = "gk_term"]
            /\ ret' = [ret EXCEPT ![r] = "timeout"]
       ELSE IF cancel_requested
       THEN /\ pc' = [pc EXCEPT ![r] = "gk_term"]
            /\ ret' = [ret EXCEPT ![r] = "cancel"]
       ELSE /\ pc' = [pc EXCEPT ![r] = "loop_timeout"]
            /\ UNCHANGED ret
    /\ UNCHANGED auxVars
    /\ UNCHANGED <<loopExit, cancel_requested, proc, status, sigs, exitPhase, stdinBuf, sent,
                   stdout, stderrBuf, drain, timeout_ms, elapsed, polls, terminal_error,
                   stdout_text, result, cancelMark>>

\* lines 757-762: the flag is read; set, the child is killed
CheckCancel(r) ==
    /\ pc[r] = "loop_cancel"
    /\ IF cancel_requested
       THEN /\ pc' = [pc EXCEPT ![r] = "gk_term"]
            /\ ret' = [ret EXCEPT ![r] = "cancel"]
       ELSE /\ pc' = [pc EXCEPT ![r] = "loop_timeout"]
            /\ UNCHANGED ret
    /\ UNCHANGED auxVars
    /\ UNCHANGED <<loopExit, cancel_requested, proc, status, sigs, exitPhase, stdinBuf, sent, stdout,
                   stderrBuf, drain, timeout_ms, elapsed, polls, terminal_error,
                   stdout_text, result, cancelMark>>

\* lines 764-769: the clock is read; past the budget, the child is killed
CheckTimeout(r) ==
    /\ pc[r] = "loop_timeout"
    /\ IF elapsed[r] > timeout_ms[r]
       THEN /\ pc' = [pc EXCEPT ![r] = "gk_term"]
            /\ ret' = [ret EXCEPT ![r] = "timeout"]
       ELSE /\ pc' = [pc EXCEPT ![r] = "loop_poll"]
            /\ UNCHANGED ret
    /\ UNCHANGED auxVars
    /\ UNCHANGED <<loopExit, cancel_requested, proc, status, sigs, exitPhase, stdinBuf, sent, stdout,
                   stderrBuf, drain, timeout_ms, elapsed, polls, terminal_error,
                   stdout_text, result, cancelMark>>

\* GkReturn with the timeout branch reporting a cancellation
GkReturnAlwaysCancelled(r) ==
    /\ pc[r] = "gk_ret"
    /\ terminal_error' = [terminal_error EXCEPT ![r] = "Cancelled"]
    /\ pc' = [pc EXCEPT ![r] = "join_err"]
    /\ UNCHANGED auxVars
    /\ UNCHANGED <<loopExit, cancel_requested, ret, proc, status, sigs, exitPhase, stdinBuf,
                   sent, stdout, stderrBuf, drain, timeout_ms, elapsed, polls,
                   stdout_text, result, cancelMark>>

\* GkReturn with terminal_error left unset, so that the stdout read follows
GkReturnToRead(r) ==
    /\ pc[r] = "gk_ret"
    /\ pc' = [pc EXCEPT ![r] = "read"]
    /\ UNCHANGED auxVars
    /\ UNCHANGED <<loopExit, cancel_requested, ret, proc, status, sigs, exitPhase, stdinBuf,
                   sent, stdout, stderrBuf, drain, timeout_ms, elapsed, polls,
                   terminal_error, stdout_text, result, cancelMark>>

\* lines 758-760 and 765-767: graceful_kill has returned, terminal_error is set
GkReturn(r) ==
    /\ pc[r] = "gk_ret"
    /\ terminal_error' = [terminal_error EXCEPT ![r] =
            IF ret[r] = "cancel" THEN "Cancelled" ELSE "TimedOut"]
    /\ pc' = [pc EXCEPT ![r] = "join_err"]
    /\ UNCHANGED auxVars
    /\ UNCHANGED <<loopExit, cancel_requested, ret, proc, status, sigs, exitPhase, stdinBuf, sent,
                   stdout, stderrBuf, drain, timeout_ms, elapsed, polls, stdout_text,
                   result, cancelMark>>

\* line 772: try_wait() = Ok(Some(_status)), whatever the status
PollExited(r) ==
    /\ pc[r] = "loop_poll"
    /\ proc[r] = "exited"
    /\ proc' = [proc EXCEPT ![r] = "reaped"]
    /\ pc' = [pc EXCEPT ![r] = "read"]
    /\ UNCHANGED auxVars
    /\ UNCHANGED <<loopExit, cancel_requested, ret, status, sigs, exitPhase, stdinBuf, sent, stdout,
                   stderrBuf, drain, timeout_ms, elapsed, polls, terminal_error,
                   stdout_text, result, cancelMark>>

\* line 773: try_wait() = Ok(None)
PollRunning(r) ==
    /\ pc[r] = "loop_poll"
    /\ proc[r] \in {"running", "blocked"}
    /\ pc' = [pc EXCEPT ![r] = "loop_sleep"]
    /\ UNCHANGED auxVars
    /\ UNCHANGED <<loopExit, cancel_requested, ret, proc, status, sigs, exitPhase, stdinBuf, sent,
                   stdout, stderrBuf, drain, timeout_ms, elapsed, polls, terminal_error,
                   stdout_text, result, cancelMark>>

\* lines 774-777: try_wait() = Err(err)
PollError(r) ==
    /\ pc[r] = "loop_poll"
    /\ terminal_error' = [terminal_error EXCEPT ![r] = "PollFailed"]
    /\ pc' = [pc EXCEPT ![r] = "join_err"]
    /\ UNCHANGED auxVars
    /\ UNCHANGED <<loopExit, cancel_requested, ret, proc, status, sigs, exitPhase, stdinBuf, sent,
                   stdout, stderrBuf, drain, timeout_ms, elapsed, polls, stdout_text,
                   result, cancelMark>>

\* the instants a sleep of at least 50 ms can end at: 50 ms later (for the first
\* MaxExactSleeps sleeps, and past the budget), at the budget, or just past it
SleepTargets(r) ==
    { e \in {elapsed[r] + PollIntervalMs, timeout_ms[r], timeout_ms[r] + 1} :
        /\ e >= elapsed[r] + PollIntervalMs
        /\ e = elapsed[r] + PollIntervalMs =>
              (e <= MaxExactSleeps * PollIntervalMs \/ elapsed[r] >= timeout_ms[r]) }

\* line 780
Sleep(r) ==
    /\ pc[r] = "loop_sleep"
    /\ \E e \in SleepTargets(r) : elapsed' = [elapsed EXCEPT ![r] = e]
    /\ pc' = [pc EXCEPT ![r] = "loop_cancel"]
    /\ UNCHANGED auxVars
    /\ UNCHANGED <<loopExit, cancel_requested, ret, proc, status, sigs, exitPhase, stdinBuf, sent,
                   stdout, stderrBuf, drain, timeout_ms, polls, terminal_error,
                   stdout_text, result, cancelMark>>

\* JoinOnError returning without the join
JoinOnErrorNoJoin(r) ==
    /\ pc[r] = "join_err"
    /\ result' = [result EXCEPT ![r] = Err(terminal_error[r])]
    /\ pc' = [pc EXCEPT ![r] = "done"]
    /\ UNCHANGED auxVars
    /\ UNCHANGED <<loopExit, cancel_requested, ret, proc, status, sigs, exitPhase, stdinBuf,
                   sent, stdout, stderrBuf, drain, timeout_ms, elapsed, polls,
                   terminal_error, stdout_text, cancelMark>>

\* lines 783-786: the drain is joined and the terminal error is returned
JoinOnError(r) ==
    /\ pc[r] = "join_err"
    /\ drain[r] = "finished"
    /\ drain' = [drain EXCEPT ![r] = "joined"]
    /\ result' = [result EXCEPT ![r] = Err(terminal_error[r])]
    /\ pc' = [pc EXCEPT ![r] = "done"]
    /\ UNCHANGED auxVars
    /\ UNCHANGED <<loopExit, cancel_requested, ret, proc, status, sigs, exitPhase, stdinBuf, sent,
                   stdout, stderrBuf, timeout_ms, elapsed, polls, terminal_error,
                   stdout_text, cancelMark>>

\* lines 788-792: read_to_string reads to end-of-stream, or fails
ReadStdout(r) ==
    /\ pc[r] = "read"
    /\ proc[r] \in {"exited", "reaped"}
    /\ \E ok \in BOOLEAN :
          IF ok
          THEN /\ stdout_text' = [stdout_text EXCEPT ![r] = stdout[r]]
               /\ pc' = [pc EXCEPT ![r] = "join_ok"]
          ELSE /\ pc' = [pc EXCEPT ![r] = "join_readerr"]
               /\ UNCHANGED stdout_text
    /\ UNCHANGED auxVars
    /\ UNCHANGED <<loopExit, cancel_requested, ret, proc, status, sigs, exitPhase, stdinBuf, sent,
                   stdout, stderrBuf, drain, timeout_ms, elapsed, polls, terminal_error,
                   result, cancelMark>>

\* lines 790-791
JoinOnReadError(r) ==
    /\ pc[r] = "join_readerr"
    /\ drain[r] = "finished"
    /\ drain' = [drain EXCEPT ![r] = "joined"]
    /\ result' = [result EXCEPT ![r] = Err("ReadFailed")]
    /\ pc' = [pc EXCEPT ![r] = "done"]
    /\ UNCHANGED auxVars
    /\ UNCHANGED <<loopExit, cancel_requested, ret, proc, status, sigs, exitPhase, stdinBuf, sent,
                   stdout, stderrBuf, timeout_ms, elapsed, polls, terminal_error,
                   stdout_text, cancelMark>>

\* line 793
JoinOnSuccess(r) ==
    /\ pc[r] = "join_ok"
    /\ drain[r] = "finished"
    /\ drain' = [drain EXCEPT ![r] = "joined"]
    /\ pc' = [pc EXCEPT ![r] = "trim"]
    /\ UNCHANGED auxVars
    /\ UNCHANGED <<loopExit, cancel_requested, ret, proc, status, sigs, exitPhase, stdinBuf, sent,
                   stdout, stderrBuf, timeout_ms, elapsed, polls, terminal_error,
                   stdout_text, result, cancelMark>>

\* Finish without the is_empty test
FinishNoEmptyCheck(r) ==
    /\ pc[r] = "trim"
    /\ result' = [result EXCEPT ![r] = Ok(Trim(stdout_text[r]))]
    /\ pc' = [pc EXCEPT ![r] = "done"]
    /\ UNCHANGED auxVars
    /\ UNCHANGED <<loopExit, cancel_requested, ret, proc, status, sigs, exitPhase, stdinBuf,
                   sent, stdout, stderrBuf, drain, timeout_ms, elapsed, polls,
                   terminal_error, stdout_text, cancelMark>>

\* lines 795-801: the trimmed text, or the empty-output error
Finish(r) ==
    /\ pc[r] = "trim"
    /\ result' = [result EXCEPT ![r] =
            IF Trim(stdout_text[r]) = <<>> THEN Err("EmptyOutput")
            ELSE Ok(Trim(stdout_text[r]))]
    /\ pc' = [pc EXCEPT ![r] = "done"]
    /\ UNCHANGED auxVars
    /\ UNCHANGED <<loopExit, cancel_requested, ret, proc, status, sigs, exitPhase, stdinBuf, sent,
                   stdout, stderrBuf, drain, timeout_ms, elapsed, polls, terminal_error,
                   stdout_text, cancelMark>>

(***************************************************************************)
(* The timeout budget of a request (lines 719-752), on its own.            *)
(***************************************************************************)
\* payload.mode values: absent, the five modes the code names, and others
BudgetModes == {NoneMode, "browseros-act", "browseros-navigate", "excalidraw-act",
                "browseros-intent", "topic-shift-detect", "chat", "Browseros-Act", ""}

\* values of the environment variable, each with the integer its text denotes, if
\* it denotes one
OverrideCases ==
    {
      [text |-> <<"1", "0", "0", "0">>, valid |-> TRUE, int |-> 1000],
      [text |-> <<"9", "9", "9">>, valid |-> TRUE, int |-> 999],
      [text |-> <<" ", "2", "0", "0", "0", " ">>, valid |-> TRUE, int |-> 2000],
      [text |-> <<"+", "1", "5", "0", "0">>, valid |-> TRUE, int |-> 1500],
      [text |-> <<"0", "1", "0", "0", "0">>, valid |-> TRUE, int |-> 1000],
      [text |-> <<"0">>, valid |-> TRUE, int |-> 0],
      [text |-> <<>>, valid |-> FALSE, int |-> 0],
      [text |-> <<"-", "5", "0", "0", "0">>, valid |-> TRUE, int |-> -5000],
      [text |-> <<"1", "e", "3">>, valid |-> FALSE, int |-> 0],
      [text |-> <<"1", "0", "0", "0", ".", "0">>, valid |-> FALSE, int |-> 0],
      [text |-> <<"1", "_", "0", "0", "0">>, valid |-> FALSE, int |-> 0],
      [text |-> <<"9", "0", "0", "0", "0", "\n">>, valid |-> TRUE, int |-> 90000],
      [text |-> <<"a", "b", "c">>, valid |-> FALSE, int |-> 0],
      [text |-> <<"2", "0", " ", "0", "0">>, valid |-> FALSE, int |-> 0]
    }
BudgetOverrides == {Unset} \cup {c.text : c \in OverrideCases}

NoBudget == [default_timeout_ms |-> 0, timeout_env_key |-> "", timeout_ms |-> 0]

BudgetIdle == payload_mode = NoneMode /\ env_value = Unset /\ budget = NoBudget

\* lines 719-747: the mode flags, the default and the name of the variable
ClassifyMode ==
    /\ budget = NoBudget
    /\ budget' = [default_timeout_ms |-> DefaultTimeoutMs(payload_mode),
                  timeout_env_key |-> TimeoutEnvKey(payload_mode),
                  timeout_ms |-> 0]
    /\ UNCHANGED <<payload_mode, env_value, agentVars, serviceVars, transcriptVars, logVars>>

\* lines 748-752: the variable is read and the budget is fixed
ReadOverride ==
    /\ budget # NoBudget
    /\ budget.timeout_ms = 0
    /\ budget' = [budget EXCEPT !.timeout_ms = ResolveTimeoutMs(payload_mode, env_value)]
    /\ UNCHANGED <<payload_mode, env_value, agentVars, serviceVars, transcriptVars, logVars>>

(***************************************************************************)
(* The canvas service: start_excalidraw_server (lines 77-165), the setup   *)
(* hook and the Exit handler of run() (lines 1460-1468 and 1512-1525).     *)
(***************************************************************************)
\* what start_excalidraw_server can find: whether mcp_config_path succeeds, the
\* state of mcp.json, the excalidraw entry of the parsed file and two of its
\* fields, whether <cwd>/dist/server.js exists and whether the spawn succeeds
Configs ==
    [path : BOOLEAN,
     file : {"missing", "unreadable", "garbage", "json"},
     entry : BOOLEAN,
     enabled : {"absent", "true", "false", "string"},
     cwd : {"absent", "number", "path"},
     server_js : BOOLEAN,
     spawn : BOOLEAN]

NoConfig == [path |-> FALSE, file |-> "missing", entry |-> FALSE, enabled |-> "absent",
             cwd |-> "absent", server_js |-> FALSE, spawn |-> FALSE]

\* lines 86-90 with default_mcp_config (lines 421-452): a file that is missing or
\* cannot be read is replaced by the default, which has an excalidraw entry with a
\* cwd and no `enabled` field
ParsedConfig(c) ==
    IF c.file \in {"missing", "unreadable"}
    THEN [c EXCEPT !.entry = TRUE, !.enabled = "absent", !.cwd = "path"]
    ELSE c

\* StartExcalidrawServer without the test of lines 108-111
StartExcalidrawServerAlways(c) ==
    LET e == ParsedConfig(c)
    IN  IF ~c.path THEN "None"
        ELSE IF c.file = "garbage" THEN "None"
        ELSE IF ~e.entry THEN "None"
        ELSE IF e.cwd # "path" THEN "None"
        ELSE IF ~e.server_js THEN "None"
        ELSE IF ~e.spawn THEN "None"
        ELSE "Some"

\* start_excalidraw_server: "Some" when a process was spawned, else "None"
StartExcalidrawServer(c) ==
    LET e == ParsedConfig(c)
    IN  IF ~c.path THEN "None"
        ELSE IF c.file = "garbage" THEN "None"
        ELSE IF ~e.entry THEN "None"
        ELSE IF e.enabled = "false" THEN "None"
        ELSE IF e.cwd # "path" THEN "None"
        ELSE IF ~e.server_js THEN "None"
        ELSE IF ~e.spawn THEN "None"
        ELSE "Some"

ServiceIdle == excalidraw_child = "None" /\ config = NoConfig /\ orphans = 0

\* the setup hook, in the states `from`: the service is started and the handle is
\* stored; the handle it replaces is dropped, which neither kills nor reaps
SetupFrom(from) ==
    /\ pc[Svc] \in from
    /\ \E c \in Configs :
          /\ config' = c
          /\ excalidraw_child' = StartExcalidrawServer(c)
          /\ IF StartExcalidrawServer(c) = "Some"
             THEN /\ proc' = [proc EXCEPT ![Svc] = "running"]
                  /\ status' = [status EXCEPT ![Svc] = "none"]
             ELSE UNCHANGED <<proc, status>>
    /\ orphans' = IF excalidraw_child = "Some" /\ proc[Svc] \in {"running", "blocked"}
                  THEN orphans + 1 ELSE orphans
    /\ pc' = [pc EXCEPT ![Svc] = "serving"]
    /\ UNCHANGED <<cancel_requested, ret, sigs, exitPhase, stdinBuf, sent, stdout,
                   stderrBuf, drain, timeout_ms, elapsed, polls, loopExit,
                   terminal_error, stdout_text, result, cancelMark>>
    /\ UNCHANGED <<budgetVars, transcriptVars, logVars>>

\* Setup run again by a host that is already serving
SetupRepeated == SetupFrom({"idle", "serving"})

\* lines 1463-1468: the hook runs once, before the event loop
Setup == SetupFrom({"idle"})

\* ExitEvent leaving without graceful_kill
ExitEventDropsHandle ==
    /\ pc[Svc] = "serving"
    /\ excalidraw_child' = "None"
    /\ pc' = [pc EXCEPT ![Svc] = "done"]
    /\ UNCHANGED <<cancel_requested, ret, proc, status, sigs, exitPhase, stdinBuf, sent,
                   stdout, stderrBuf, drain, timeout_ms, elapsed, polls, loopExit,
                   terminal_error, stdout_text, result, cancelMark>>
    /\ UNCHANGED <<budgetVars, config, orphans, transcriptVars, logVars>>

\* lines 1513-1523: RunEvent::Exit takes the handle out of the state under the lock;
\* with a handle graceful_kill is called, without one the handler returns
ExitEvent ==
    /\ pc[Svc] = "serving"
    /\ excalidraw_child' = "None"
    /\ pc' = [pc EXCEPT ![Svc] = IF excalidraw_child = "Some" THEN "gk_term" ELSE "done"]
    /\ UNCHANGED <<cancel_requested, ret, proc, status, sigs, exitPhase, stdinBuf, sent,
                   stdout, stderrBuf, drain, timeout_ms, elapsed, polls, loopExit,
                   terminal_error, stdout_text, result, cancelMark>>
    /\ UNCHANGED <<budgetVars, config, orphans, transcriptVars, logVars>>

\* lines 1522-1524: graceful_kill has returned and so does the handler
ExitHandlerReturn ==
    /\ pc[Svc] = "gk_ret"
    /\ pc' = [pc EXCEPT ![Svc] = "done"]
    /\ UNCHANGED <<cancel_requested, ret, proc, status, sigs, exitPhase, stdinBuf, sent,
                   stdout, stderrBuf, drain, timeout_ms, elapsed, polls, loopExit,
                   terminal_error, stdout_text, result, cancelMark>>
    /\ UNCHANGED auxVars

(***************************************************************************)
(* test_mcp_config (lines 584-642) and transcribe_audio (lines 174-249).   *)
(***************************************************************************)
\* the command is invoked; the locals of an earlier invocation are gone
StartHelper(h) ==
    /\ pc[h] \in {"idle", "done"}
    /\ pc' = [pc EXCEPT ![h] = "h_prepare"]
    /\ proc' = [proc EXCEPT ![h] = "none"]
    /\ status' = [status EXCEPT ![h] = "none"]
    /\ sigs' = [sigs EXCEPT ![h] = <<>>]
    /\ exitPhase' = [exitPhase EXCEPT ![h] = "none"]
    /\ stdinBuf' = [stdinBuf EXCEPT ![h] = 0]
    /\ sent' = [sent EXCEPT ![h] = 0]
    /\ stdout' = [stdout EXCEPT ![h] = <<>>]
    /\ elapsed' = [elapsed EXCEPT ![h] = 0]
    /\ result' = [result EXCEPT ![h] = Pending]
    /\ UNCHANGED <<cancel_requested, ret, stderrBuf, drain, timeout_ms, polls, loopExit,
                   terminal_error, stdout_text, cancelMark>>
    /\ UNCHANGED auxVars

\* lines 587-602, and lines 179-223: paths are resolved and inputs decoded, or the
\* command fails
HelperPrepare(h) ==
    /\ pc[h] = "h_prepare"
    /\ \E ok \in BOOLEAN :
          IF ok
          THEN /\ pc' = [pc EXCEPT ![h] = "h_spawn"]
               /\ UNCHANGED result
          ELSE /\ pc' = [pc EXCEPT ![h] = "done"]
               /\ result' = [result EXCEPT ![h] = Err("SetupFailed")]
    /\ UNCHANGED <<cancel_requested, ret, proc, status, sigs, exitPhase, stdinBuf, sent,
                   stdout, stderrBuf, drain, timeout_ms, elapsed, polls, loopExit,
                   terminal_error, stdout_text, cancelMark>>
    /\ UNCHANGED auxVars

\* lines 604-611, and the spawn inside Command::output of lines 225-227
HelperSpawn(h) ==
    /\ pc[h] = "h_spawn"
    /\ \E ok \in BOOLEAN :
          IF ok
          THEN /\ pc' = [pc EXCEPT ![h] = IF h = McpTest THEN "h_write" ELSE "h_wait"]
               /\ proc' = [proc EXCEPT ![h] = "running"]
               /\ UNCHANGED result
          ELSE /\ pc' = [pc EXCEPT ![h] = "done"]
               /\ result' = [result EXCEPT ![h] = Err("SpawnFailed")]
               /\ UNCHANGED proc
    /\ UNCHANGED <<cancel_requested, ret, status, sigs, exitPhase, stdinBuf, sent,
                   stdout, stderrBuf, drain, timeout_ms, elapsed, polls, loopExit,
                   terminal_error, stdout_text, cancelMark>>
    /\ UNCHANGED auxVars

\* lines 613-616: write_all, blocking while the pipe is full
HelperWriteChunk(h) ==
    /\ pc[h] = "h_write"
    /\ sent[h] < PayloadLen
    /\ proc[h] \in {"running", "blocked"}
    /\ stdinBuf[h] < StdinCap
    /\ sent' = [sent EXCEPT ![h] = @ + 1]
    /\ stdinBuf' = [stdinBuf EXCEPT ![h] = @ + 1]
    /\ UNCHANGED <<cancel_requested, pc, ret, proc, status, sigs, exitPhase, stdout,
                   stderrBuf, drain, timeout_ms, elapsed, polls, loopExit,
                   terminal_error, stdout_text, result, cancelMark>>
    /\ UNCHANGED auxVars

\* line 616: write_all fails and `?` returns
HelperWriteFailed(h) ==
    /\ pc[h] = "h_write"
    /\ sent[h] < PayloadLen
    /\ proc[h] = "exited"
    /\ result' = [result EXCEPT ![h] = Err("WriteFailed")]
    /\ pc' = [pc EXCEPT ![h] = "done"]
    /\ UNCHANGED <<cancel_requested, ret, proc, status, sigs, exitPhase, stdinBuf, sent,
                   stdout, stderrBuf, drain, timeout_ms, elapsed, polls, loopExit,
                   terminal_error, stdout_text, cancelMark>>
    /\ UNCHANGED auxVars

\* line 617: the request is written and stdin is dropped
HelperCloseStdin(h) ==
    /\ pc[h] = "h_write"
    /\ sent[h] = PayloadLen
    /\ pc' = [pc EXCEPT ![h] = "h_wait"]
    /\ UNCHANGED <<cancel_requested, ret, proc, status, sigs, exitPhase, stdinBuf, sent,
                   stdout, stderrBuf, drain, timeout_ms, elapsed, polls, loopExit,
                   terminal_error, stdout_text, result, cancelMark>>
    /\ UNCHANGED auxVars

\* lines 619-638 (wait_with_output) and lines 225-248 (output): the call returns
\* once the child has ended and its streams are at their end, and reaps it; the
\* outcome follows the exit status and, for the MCP test, the text of stdout
HelperWait(h) ==
    /\ pc[h] = "h_wait"
    /\ proc[h] = "exited"
    /\ \E ok \in BOOLEAN, json \in BOOLEAN :
          result' = [result EXCEPT ![h] =
              IF ~ok THEN Err("ReadFailed")
              ELSE IF status[h] # "zero" THEN Err("ProcessFailed")
              ELSE IF h = McpTest /\ Trim(stdout[h]) = <<>> THEN Err("EmptyOutput")
              ELSE IF h = McpTest /\ ~json THEN Err("ParseFailed")
              ELSE Ok(<<>>)]
    /\ proc' = [proc EXCEPT ![h] = "reaped"]
    /\ pc' = [pc EXCEPT ![h] = "done"]
    /\ UNCHANGED <<cancel_requested, ret, status, sigs, exitPhase, stdinBuf, sent,
                   stdout, stderrBuf, drain, timeout_ms, elapsed, polls, loopExit,
                   terminal_error, stdout_text, cancelMark>>
    /\ UNCHANGED auxVars

\* what the operation can do by itself, whatever its child does
HelperTask(h) ==
    \/ StartHelper(h)
    \/ HelperPrepare(h)
    \/ HelperSpawn(h)
    \/ HelperWriteChunk(h)
    \/ HelperWriteFailed(h)
    \/ HelperCloseStdin(h)
    \/ HelperWait(h)

\* time passes for a helper that has been spawned: to the largest budget of any
\* mode, then past it
HelperClock(h) ==
    /\ pc[h] \in {"h_write", "h_wait"}
    /\ \E e \in {BrowserosActTimeoutMs, BrowserosActTimeoutMs + 1} :
          /\ e > elapsed[h]
          /\ elapsed' = [elapsed EXCEPT ![h] = e]
    /\ UNCHANGED <<cancel_requested, pc, ret, proc, status, sigs, exitPhase, stdinBuf,
                   sent, stdout, stderrBuf, drain, timeout_ms, polls, loopExit,
                   terminal_error, stdout_text, result, cancelMark>>
    /\ UNCHANGED auxVars

(***************************************************************************)
(* extract_transcript and its helpers (lines 1094-1225), on sequences of   *)
(* characters.                                                             *)
(***************************************************************************)
\* Option<String>
None == [some |-> FALSE, value |-> <<>>]
Some(v) == [some |-> TRUE, value |-> v]

\* the least element of a non-empty set of places
Least(S) == CHOOSE i \in S : \A j \in S : i <= j

\* str::find(char): the place of the first occurrence, 0 for none
Find(s, c) ==
    LET at == {i \in 1..Len(s) : s[i] = c}
    IN  IF at = {} THEN 0 ELSE Least(at)

StartsWith(s, pat) == Len(s) >= Len(pat) /\ SubSeq(s, 1, Len(pat)) = pat

EndsWith(s, pat) ==
    Len(s) >= Len(pat) /\ SubSeq(s, Len(s) - Len(pat) + 1, Len(s)) = pat

\* str::contains(&str)
Contains(s, pat) ==
    \E i \in 1..(Len(s) - Len(pat) + 1) : SubSeq(s, i, i + Len(pat) - 1) = pat

\* str::trim_start_matches and str::trim_matches for a set of characters
RECURSIVE TrimStartMatches(_, _)
TrimStartMatches(s, set) ==
    IF s # <<>> /\ Head(s) \in set THEN TrimStartMatches(Tail(s), set) ELSE s

RECURSIVE TrimEndMatches(_, _)
TrimEndMatches(s, set) ==
    IF s # <<>> /\ s[Len(s)] \in set
    THEN TrimEndMatches(SubSeq(s, 1, Len(s) - 1), set)
    ELSE s

TrimMatches(s, set) == TrimEndMatches(TrimStartMatches(s, set), set)

\* char::to_lowercase on the ASCII letters
ToLowerChar(c) ==
    CASE c = "A" -> "a" [] c = "B" -> "b" [] c = "C" -> "c" [] c = "D" -> "d"
      [] c = "E" -> "e" [] c = "F" -> "f" [] c = "G" -> "g" [] c = "H" -> "h"
      [] c = "I" -> "i" [] c = "J" -> "j" [] c = "K" -> "k" [] c = "L" -> "l"
      [] c = "M" -> "m" [] c = "N" -> "n" [] c = "O" -> "o" [] c = "P" -> "p"
      [] c = "Q" -> "q" [] c = "R" -> "r" [] c = "S" -> "s" [] c = "T" -> "t"
      [] c = "U" -> "u" [] c = "V" -> "v" [] c = "W" -> "w" [] c = "X" -> "x"
      [] c = "Y" -> "y" [] c = "Z" -> "z"
      [] OTHER -> c

ToLowercase(s) == [i \in 1..Len(s) |-> ToLowerChar(s[i])]

\* str::lines: lines end at "\n" or "\r\n"; a last line that is empty is not a line
StripCr(line) ==
    IF line # <<>> /\ line[Len(line)] = "\r" THEN SubSeq(line, 1, Len(line) - 1) ELSE line

RECURSIVE LinesFrom(_, _)
LinesFrom(s, i) ==
    IF i > Len(s) THEN <<>>
    ELSE LET nl == {j \in i..Len(s) : s[j] = "\n"}
             line == IF nl = {} THEN SubSeq(s, i, Len(s))
                     ELSE StripCr(SubSeq(s, i, Least(nl) - 1))
         IN  <<line>> \o (IF nl = {} THEN <<>> ELSE LinesFrom(s, Least(nl) + 1))

Lines(s) == LinesFrom(s, 1)

\* str::split_whitespace: the maximal runs of characters that are not whitespace
RECURSIVE TokensFrom(_, _)
TokensFrom(s, i) ==
    LET starts == {j \in i..Len(s) : ~IsWhitespace(s[j])}
    IN  IF starts = {} THEN <<>>
        ELSE LET b == Least(starts)
                 ends == {j \in b..Len(s) : IsWhitespace(s[j])}
                 e == IF ends = {} THEN Len(s) + 1 ELSE Least(ends)
             IN  <<SubSeq(s, b, e - 1)>> \o TokensFrom(s, e)

SplitWhitespace(s) == TokensFrom(s, 1)

\* [&str]::join
RECURSIVE Join(_, _)
Join(seqs, sep) ==
    IF seqs = <<>> THEN <<>>
    ELSE IF Len(seqs) = 1 THEN seqs[1]
    ELSE seqs[1] \o sep \o Join(Tail(seqs), sep)

IsAsciiDigit(c) == c \in {"0", "1", "2", "3", "4", "5", "6", "7", "8", "9"}

\* lines 1210-1216: what the first trim_matches of a token strips
TokenPunctuation ==
    {" ", "\n", "\t", "\r", "[", "]", "(", ")", "{", "}", ".", ",", ";", ":", "!", "?"}

\* lines 1209-1221
NormalizeToken(token) ==
    ToLowercase(
        TrimMatches(
            TrimMatches(
                TrimStartMatches(
                    TrimStartMatches(TrimMatches(token, TokenPunctuation), {">"}),
                    {"~"}),
                {"\""}),
            {"'"}))

RECURSIVE NormalizeEach(_)
NormalizeEach(tokens) ==
    IF tokens = <<>> THEN <<>>
    ELSE LET t == NormalizeToken(Head(tokens))
         IN  (IF t = <<>> THEN <<>> ELSE <<t>>) \o NormalizeEach(Tail(tokens))

\* normalize_fragment_tokens (lines 1206-1225)
NormalizeFragmentTokens(text) == NormalizeEach(SplitWhitespace(text))

\* is_timestamp_only_line (lines 1143-1157)
IsTimestampOnlyLine(text) ==
    LET trimmed == Trim(text)
        inner == Trim(SubSeq(trimmed, 2, Len(trimmed) - 1))
    IN  /\ StartsWith(trimmed, <<"[">>)
        /\ EndsWith(trimmed, <<"]">>)
        /\ Contains(inner, <<"-", "-", ">">>)
        /\ \A i \in 1..Len(inner) :
              IsAsciiDigit(inner[i]) \/ inner[i] \in {":", ".", "-", ">", " "}

\* the phrases of lines 1176-1184
MarkerPhrases ==
    { <<"b", "l", "a", "n", "k", "_", "a", "u", "d", "i", "o">>,
      <<"b", "l", "a", "n", "k", " ", "a", "u", "d", "i", "o">>,
      <<"m", "u", "s", "i", "c">>,
      <<"i", "n", "a", "u", "d", "i", "b", "l", "e">>,
      <<"s", "p", "e", "a", "k", "i", "n", "g", " ", "i", "n", " ", "a", " ", "f", "o", "r", "e", "i", "g", "n", " ", "l", "a", "n", "g", "u", "a", "g", "e">>,
      <<"f", "o", "r", "e", "i", "g", "n", " ", "l", "a", "n", "g", "u", "a", "g", "e">> }

\* is_non_speech_marker (lines 1159-1191)
IsNonSpeechMarker(text) ==
    LET trimmed == Trim(text)
        words == NormalizeFragmentTokens(trimmed)
    IN  IF trimmed = <<>> THEN TRUE
        ELSE IF IsTimestampOnlyLine(trimmed) THEN TRUE
        ELSE IF words = <<>> THEN TRUE
        ELSE IF Join(words, <<" ">>) \in MarkerPhrases THEN TRUE
        ELSE \A i \in 1..Len(words) :
                words[i] = <<"i", "n", "a", "u", "d", "i", "b", "l", "e">> \/ words[i] = <<"m", "u", "s", "i", "c">>

\* IsLowInformationFragment without the limit of three words
IsLowInformationFragmentAnyCount(text) ==
    LET words == NormalizeFragmentTokens(text)
    IN  \A i \in 1..Len(words) : words[i] = <<"y", "o", "u">>

\* is_low_information_fragment (lines 1193-1204)
IsLowInformationFragment(text) ==
    LET words == NormalizeFragmentTokens(text)
        you == <<"y", "o", "u">>
    IN  IF words = <<>> THEN TRUE
        ELSE IF Len(words) = 1 THEN words[1] = you
        ELSE Len(words) <= 3 /\ \A i \in 1..Len(words) : words[i] = you

\* lines 1127-1129: every leading ">>" is stripped, with the whitespace after it
RECURSIVE StripQuoteMarks(_)
StripQuoteMarks(cleaned) ==
    IF StartsWith(cleaned, <<">", ">">>)
    THEN StripQuoteMarks(TrimStart(SubSeq(cleaned, 3, Len(cleaned))))
    ELSE cleaned

\* clean_transcript_fragment (lines 1125-1141)
CleanTranscriptFragment(text) ==
    LET cleaned == StripQuoteMarks(Trim(text))
        collapsed == Join(SplitWhitespace(cleaned), <<" ">>)
    IN  IF cleaned = <<>> \/ IsTimestampOnlyLine(cleaned) \/ IsNonSpeechMarker(cleaned)
        THEN None
        ELSE IF collapsed = <<>> \/ IsLowInformationFragment(collapsed) THEN None
        ELSE Some(collapsed)

\* PrimaryPass pushing each fragment in front of the earlier ones
RECURSIVE PrimaryPassReversed(_)
PrimaryPassReversed(lines) ==
    IF lines = <<>> THEN <<>>
    ELSE LET line == Head(lines)
             idx == Find(line, "]")
             cleaned == CleanTranscriptFragment(Trim(SubSeq(line, idx + 1, Len(line))))
         IN  PrimaryPassReversed(Tail(lines))
                 \o (IF idx > 0 /\ cleaned.some THEN <<cleaned.value>> ELSE <<>>)

\* lines 1097-1104: the fragments of the lines that hold a ']'
RECURSIVE PrimaryPass(_)
PrimaryPass(lines) ==
    IF lines = <<>> THEN <<>>
    ELSE LET line == Head(lines)
             idx == Find(line, "]")
             cleaned == CleanTranscriptFragment(Trim(SubSeq(line, idx + 1, Len(line))))
         IN  (IF idx > 0 /\ cleaned.some THEN <<cleaned.value>> ELSE <<>>)
                 \o PrimaryPass(Tail(lines))

\* FallbackPass without the test of lines 1112-1114
RECURSIVE FallbackPassKeepsUnderscore(_)
FallbackPassKeepsUnderscore(lines) ==
    IF lines = <<>> THEN <<>>
    ELSE LET trimmed == Trim(Head(lines))
             cleaned == CleanTranscriptFragment(trimmed)
         IN  (IF trimmed # <<>> /\ cleaned.some THEN <<cleaned.value>> ELSE <<>>)
                 \o FallbackPassKeepsUnderscore(Tail(lines))

\* lines 1107-1119: the fragments of the lines that are not blank and hold no '_'
RECURSIVE FallbackPass(_)
FallbackPass(lines) ==
    IF lines = <<>> THEN <<>>
    ELSE LET trimmed == Trim(Head(lines))
             cleaned == CleanTranscriptFragment(trimmed)
         IN  (IF trimmed # <<>> /\ Find(trimmed, "_") = 0 /\ cleaned.some
              THEN <<cleaned.value>> ELSE <<>>)
                 \o FallbackPass(Tail(lines))

\* ExtractTranscript without the second pass
ExtractTranscriptPrimaryOnly(text) == Join(PrimaryPass(Lines(text)), <<" ">>)

\* extract_transcript (lines 1094-1123)
ExtractTranscript(text) ==
    LET primary == PrimaryPass(Lines(text))
    IN  Join(IF primary = <<>> THEN FallbackPass(Lines(text)) ELSE primary, <<" ">>)

\* the texts extract_transcript is run on: every line of non-speech (blank, a
\* timestamp range, or a marker, bare or in brackets, after nothing, ">>" or a
\* timestamp range) and every line of speech on its own, and up to MaxLines of the
\* core lines together
Timestamp == <<"[", "0", ":", "0", "1", " ", "-", "-", ">", " ", "0", ":", "0", "2", "]">>

MarkerTexts ==
    { <<"M", "u", "s", "i", "c">>,
      <<"B", "L", "A", "N", "K", "_", "A", "U", "D", "I", "O">>,
      <<"f", "o", "r", "e", "i", "g", "n", " ", "l", "a", "n", "g", "u", "a", "g", "e">> }

MarkerForms ==
    UNION { {m, <<"[">> \o m \o <<"]">>, <<"(">> \o m \o <<")">>} : m \in MarkerTexts }

MarkerPrefixes == {<<>>, <<">", ">", " ">>, Timestamp \o <<" ">>}

MarkerOnlyLines ==
    {<<>>, <<" ">>, Timestamp} \cup {pre \o f : pre \in MarkerPrefixes, f \in MarkerForms}

SpeechLines ==
    { <<"y", "o", "u">>,
      <<"t", "h", "a", "n", "k", " ", " ", "y", "o", "u">>,
      <<">", ">", " ", "H", "i", " ", "t", "h", "e", "r", "e", ".">>,
      Timestamp \o <<" ", " ", "W", "e", " ", "t", "a", "l", "k", ".">>,
      <<"a", "_", "b">>,
      <<"a", "]", " ", "b", "]", " ", "c">> }

\* lines that are run on their own only: fragments of one to four "you", clean
\* sentences, a timestamped line with an underscore, lines with repeated ">>"
\* and a timestamp whose fields are separated by tabs
FragmentLines ==
    { <<"Y", "o", "u", ".">>,
      <<"y", "o", "u", " ", "y", "o", "u", " ", "y", "o", "u">>,
      <<"y", "o", "u", " ", "y", "o", "u", " ", " ", "y", "o", "u", " ", "y", "o", "u">>,
      <<"t", "h", "a", "n", "k", " ", "y", "o", "u">>,
      <<"H", "i", " ", "t", "h", "e", "r", "e", ".">>,
      Timestamp \o <<" ", "a", "_", "b">>,
      <<">", ">", ">", ">", " ", "H", "i">>,
      <<" ", ">", ">", " ", ">", ">", "\t", "H", "i", " ", "\t", "t", "h", "e", "r", "e", ".", " ">>,
      <<">", ">", ">", " ", "H", "i">>,
      <<"[", "0", ":", "0", "1", "\t", "-", "-", ">", "\t", "0", ":", "0", "2", "]">> }

TranscriptLines == MarkerOnlyLines \cup SpeechLines

RECURSIVE TextsOf(_, _)
TextsOf(lines, n) ==
    IF n <= 1 THEN lines
    ELSE TextsOf(lines, n - 1)
            \cup {t \o <<"\n">> \o l : t \in TextsOf(lines, n - 1), l \in lines}

MarkerOnlyInputs == TextsOf(MarkerOnlyLines, MaxLines)
\* the lines that texts of several lines are made of
CoreLines ==
    SpeechLines \cup
    { <<>>,
      Timestamp,
      <<"[", "M", "u", "s", "i", "c", "]">>,
      Timestamp \o <<" ", "[", "M", "u", "s", "i", "c", "]">>,
      <<">", ">", " ", "(", "f", "o", "r", "e", "i", "g", "n", " ", "l", "a", "n", "g", "u", "a", "g", "e", ")">>,
      <<"B", "L", "A", "N", "K", "_", "A", "U", "D", "I", "O">> }

TranscriptInputs == TranscriptLines \cup FragmentLines \cup TextsOf(CoreLines, MaxLines)

NotRun == [done |-> FALSE, text |-> <<>>]
NoFragment == [line |-> 0, result |-> None]

TranscriptIdle == output = <<>> /\ transcript = NotRun /\ fragment = NoFragment

\* line 239: extract_transcript is applied to what whisper-cli wrote
ExtractTranscriptCall ==
    /\ ~transcript.done
    /\ transcript' = [done |-> TRUE, text |-> ExtractTranscript(output)]
    /\ UNCHANGED <<output, fragment, agentVars, budgetVars, serviceVars, logVars>>

\* clean_transcript_fragment is applied to one line of the text
CleanFragmentCall ==
    /\ \E i \in 1..Len(Lines(output)) :
          /\ i # fragment.line
          /\ fragment' = [line |-> i, result |-> CleanTranscriptFragment(Lines(output)[i])]
    /\ UNCHANGED <<output, transcript, agentVars, budgetVars, serviceVars, logVars>>

(***************************************************************************)
(* truncate_for_log (lines 1276-1281).  A text is a sequence of characters; *)
(* a character outside ASCII is written by its code point and takes more   *)
(* than one byte of the str.                                               *)
(***************************************************************************)
Ellipsis == "U+2026"

\* char::len_utf8
Utf8Len(c) ==
    CASE c \in {"U+00E9"} -> 2
      [] c \in {"U+20AC", Ellipsis} -> 3
      [] OTHER -> 1

\* str::len: the length in bytes
RECURSIVE ByteLen(_)
ByteLen(s) == IF s = <<>> THEN 0 ELSE Utf8Len(Head(s)) + ByteLen(Tail(s))

\* str::is_char_boundary: index is the start of a character or the end of the str
IsCharBoundary(s, index) ==
    \E k \in 0..Len(s) : ByteLen(SubSeq(s, 1, k)) = index

\* &s[..index] where index is a character boundary
BytePrefix(s, index) ==
    SubSeq(s, 1, CHOOSE k \in 0..Len(s) : ByteLen(SubSeq(s, 1, k)) = index)

Returns(s) == [panic |-> FALSE, value |-> s]
Panics == [panic |-> TRUE, value |-> <<>>]

\* truncate_for_log (lines 1276-1281); the slice of line 1280 panics when max_len
\* is not a character boundary
TruncateForLog(s, max_len) ==
    IF ByteLen(s) <= max_len THEN Returns(s)
    ELSE IF IsCharBoundary(s, max_len) THEN Returns(BytePrefix(s, max_len) \o <<Ellipsis>>)
    ELSE Panics

LogChars == {"a", "U+00E9", "U+20AC"}

LogTexts == UNION {[1..n -> LogChars] : n \in 0..MaxLogChars}

NotLogged == [done |-> FALSE, panic |-> FALSE, value |-> <<>>]

LogIdle == log_text = <<>> /\ log_max_len = 0 /\ logged = NotLogged

\* lines 244, 294, 301 and 711: a stderr text is cut for the log
TruncateForLogCall ==
    /\ ~logged.done
    /\ logged' = [done |-> TRUE,
                  panic |-> TruncateForLog(log_text, log_max_len).panic,
                  value |-> TruncateForLog(log_text, log_max_len).value]
    /\ UNCHANGED <<log_text, log_max_len, agentVars, budgetVars, serviceVars, transcriptVars>>

(***************************************************************************)
(* Specification.                                                          *)
(***************************************************************************)
Child(r) ==
    \/ ChildReadStdin(r)
    \/ ChildWriteStdout(r)
    \/ ChildBlockOnStdout(r)
    \/ ChildWriteStderr(r)
    \/ ChildExit(r)
    \/ ChildDieOnSigterm(r)

Drain(r) ==
    \/ DrainLine(r)
    \/ DrainEof(r)
    \/ DrainReadError(r)

GracefulKill(r) ==
    \/ GkSigterm(r)
    \/ GkPollExited(r)
    \/ GkPollRunning(r)
    \/ GkPollError(r)
    \/ GkSleep(r)
    \/ GkKill(r)
    \/ GkWait(r)

Request(r) ==
    \/ RunLlmAgent(r)
    \/ Prepare(r)
    \/ SpawnChild(r)
    \/ WriteStdinChunk(r)
    \/ WriteStdinFailed(r)
    \/ CloseStdin(r)
    \/ StartDrain(r)
    \/ ResolveBudget(r)
    \/ CheckCancel(r)
    \/ CheckTimeout(r)
    \/ GkReturn(r)
    \/ PollExited(r)
    \/ PollRunning(r)
    \/ PollError(r)
    \/ Sleep(r)
    \/ JoinOnError(r)
    \/ ReadStdout(r)
    \/ JoinOnReadError(r)
    \/ JoinOnSuccess(r)
    \/ Finish(r)

Next ==
    \/ CancelLlmAgent
    \/ \E r \in Reqs : Request(r) \/ GracefulKill(r) \/ Drain(r) \/ Child(r)

\* the host after construction: nothing has been asked of it yet
Init == AgentInit /\ BudgetIdle /\ ServiceIdle /\ TranscriptIdle /\ LogIdle

Spec == Init /\ [][Next]_vars

\* graceful_kill runs on its caller's thread, which the scheduler keeps running
FairSpec == Spec /\ \A r \in Reqs : WF_vars(GracefulKill(r))

\* the blocking task of a request and its drain thread are threads of the host,
\* which the scheduler keeps running; nothing is assumed of the child
LiveSpec ==
    Spec /\ \A r \in Reqs : WF_vars(Request(r) \/ GracefulKill(r)) /\ WF_vars(Drain(r))

\* two run_llm_agent tasks of one session that overlap: the request of Reqs, with
\* a child that reads its stdin and ends, by itself or by a signal, and a second
\* task as far as its spawn
OverlapNext ==
    \/ CancelLlmAgent
    \/ \E r \in Reqs :
          \/ Request(r)
          \/ GracefulKill(r)
          \/ DrainEof(r)
          \/ ChildReadStdin(r)
          \/ ChildExit(r)
          \/ ChildDieOnSigterm(r)
    \/ \E r \in Tasks \ Reqs :
          \/ RunLlmAgent(r)
          \/ Prepare(r)
          \/ SpawnChild(r)

OverlapSpec == Init /\ [][OverlapNext]_vars

\* the budget of one request, for every mode and every value of the variable
BudgetInit ==
    /\ AgentInit /\ ServiceIdle /\ TranscriptIdle /\ LogIdle
    /\ payload_mode \in BudgetModes
    /\ env_value \in BudgetOverrides
    /\ budget = NoBudget

BudgetNext == ClassifyMode \/ ReadOverride

BudgetSpec == BudgetInit /\ [][BudgetNext]_vars

\* the host's run as far as the canvas service goes: setup, the service's own
\* exit, the Exit event and graceful_kill
ServiceNext ==
    \/ Setup
    \/ ExitEvent
    \/ ExitHandlerReturn
    \/ GracefulKill(Svc)
    \/ ChildExit(Svc)
    \/ ChildDieOnSigterm(Svc)

ServiceSpec == Init /\ [][ServiceNext]_vars

\* the two commands that run a helper to its end, each with its child
HelperNext ==
    \E h \in Helpers :
        \/ HelperTask(h)
        \/ HelperClock(h)
        \/ ChildReadStdin(h)
        \/ ChildWriteStdout(h)
        \/ ChildExit(h)

HelperSpec == Init /\ [][HelperNext]_vars

\* the host process runs until the Exit handler has returned
HostRunning == pc[Svc] # "done"

\* the host from its setup to its exit, with a request and an MCP test that it
\* starts meanwhile, each as far as the spawn of its child
ShutdownNext ==
    \/ ServiceNext
    \/ /\ HostRunning
       /\ \/ \E r \in Reqs : RunLlmAgent(r) \/ Prepare(r) \/ SpawnChild(r)
          \/ StartHelper(McpTest) \/ HelperPrepare(McpTest) \/ HelperSpawn(McpTest)

ShutdownSpec == Init /\ [][ShutdownNext]_vars

\* extract_transcript and clean_transcript_fragment on every text of TranscriptInputs
TranscriptInit ==
    /\ AgentInit /\ BudgetIdle /\ ServiceIdle /\ LogIdle
    /\ output \in TranscriptInputs
    /\ transcript = NotRun
    /\ fragment = NoFragment

TranscriptNext == ExtractTranscriptCall \/ CleanFragmentCall

TranscriptSpec == TranscriptInit /\ [][TranscriptNext]_vars

\* truncate_for_log on every text and every max_len of the bounds
LogInit ==
    /\ AgentInit /\ BudgetIdle /\ ServiceIdle /\ TranscriptIdle
    /\ log_text \in LogTexts
    /\ log_max_len \in 0..MaxLogLen
    /\ logged = NotLogged

LogNext == TruncateForLogCall

LogSpec == LogInit /\ [][LogNext]_vars


(***************************************************************************)
(* Properties.                                                             *)
(***************************************************************************)
Sent(r, sig) == \E i \in 1..Len(sigs[r]) : sigs[r][i] = sig

Returned(r) == pc[r] = "done"

\* the child ended without a signal having ended it, by an exit code of its own
ExitedByItself(r) == status[r] \in {"zero", "nonzero"}

\* the request left the poll loop through Ok(Some(_)) and read stdout successfully
CompletedByExit(r) ==
    /\ Returned(r)
    /\ proc[r] = "reaped"
    /\ terminal_error[r] = "none"
    /\ result[r].kind # "ReadFailed"

\* C1 as stated: a request whose child never exits by itself and whose elapsed
\* time exceeds the budget returns the timed-out error, its child reaped.
C1_TimedOutWheneverBudgetExceeded ==
    \A r \in Reqs :
        (Returned(r) /\ proc[r] # "none" /\ ~ExitedByItself(r) /\ elapsed[r] > timeout_ms[r])
            => (result[r].kind = "TimedOut" /\ proc[r] = "reaped")

\* C1 amended: such a request returns the timed-out error, or the cancelled error
\* when the flag was read as set at the top of that iteration; it never returns a
\* success, and its child has been signalled and reaped when it returns.
C1_TimedOutOrCancelledAndReaped ==
    \A r \in Reqs :
        (Returned(r) /\ proc[r] # "none" /\ ~ExitedByItself(r) /\ elapsed[r] > timeout_ms[r])
            => /\ \/ (result[r].kind = "TimedOut" /\ ret[r] = "timeout")
                  \/ (result[r].kind = "Cancelled" /\ ret[r] = "cancel")
               /\ proc[r] = "reaped"
               /\ Sent(r, "TERM")

C1_Witness ==
    \E r \in Reqs :
        /\ Returned(r) /\ elapsed[r] > timeout_ms[r] /\ status[r] = "signalled"
        /\ result[r].kind = "TimedOut" /\ proc[r] = "reaped" /\ Sent(r, "KILL")

\* C2 as stated, for the requests in which no write, poll or read failed and
\* stdout was not empty: a request during whose flight cancel_llm_agent was called
\* returns the cancelled error, its child reaped.
C2_CancelInFlightAlwaysCancels ==
    \A r \in Reqs :
        (Returned(r) /\ cancelMark[r] = "inflight"
            /\ result[r].kind \notin {"WriteFailed", "PollFailed", "ReadFailed", "EmptyOutput"})
            => (result[r].kind = "Cancelled" /\ proc[r] = "reaped")

\* C2 amended: a request whose poll loop read the flag as set returns the cancelled
\* error, never a success, and its child has been reaped when it returns.
C2_ObservedCancelReturnsCancelled ==
    \A r \in Reqs :
        /\ ret[r] = "cancel" => pc[r] \in {"gk_term", "gk_poll", "gk_sleep", "gk_kill",
                                           "gk_wait", "gk_ret", "join_err", "done"}
        /\ (Returned(r) /\ ret[r] = "cancel")
              => (result[r].kind = "Cancelled" /\ proc[r] = "reaped")

C2_Witness ==
    \E r \in Reqs :
        /\ Returned(r) /\ ret[r] = "cancel" /\ cancelMark[r] = "inflight"
        /\ result[r].kind = "Cancelled" /\ stdout[r] # <<>> /\ proc[r] = "reaped"

\* C3: a request returns the cancelled error only if cancel_llm_agent was called
\* after the request's own reset of the flag; a flag left set by an earlier cancel
\* never cancels it.
C3_StaleFlagNeverCancels ==
    \A r \in Reqs :
        result[r].kind = "Cancelled" => cancelMark[r] \in {"early", "inflight"}

C3_Witness ==
    \E r \in Reqs :
        Returned(r) /\ cancelMark[r] = "stale" /\ result[r].kind = "Ok"

\* C4: on every return after a successful spawn the child has exited and has been
\* reaped.
C4_ChildReapedOnEveryReturn ==
    \A r \in Reqs : (Returned(r) /\ proc[r] # "none") => proc[r] = "reaped"

\* C5: a request whose poll loop observed a non-zero exit never returns a success
\* value.
C5_NonZeroExitNeverSucceeds ==
    \A r \in Reqs :
        (Returned(r) /\ proc[r] = "reaped" /\ terminal_error[r] = "none"
            /\ status[r] = "nonzero")
            => result[r].kind # "Ok"

\* C6 as stated, for the requests with no write, poll or read failure: a request
\* whose child exited with status zero, before any signal was sent to it, after
\* writing text that is not empty once trimmed returns that trimmed text as its
\* success.
C6_ZeroExitAlwaysSucceeds ==
    \A r \in Reqs :
        (Returned(r) /\ status[r] = "zero" /\ Trim(stdout[r]) # <<>>
            /\ exitPhase[r] = "before"
            /\ result[r].kind \notin {"WriteFailed", "PollFailed", "ReadFailed"})
            => result[r] = Ok(Trim(stdout[r]))

\* C6 amended: when the poll loop observed that exit and the stdout read succeeded,
\* the request returns exactly the trimmed stdout as its success.
C6_ObservedZeroExitSucceeds ==
    \A r \in Reqs :
        (CompletedByExit(r) /\ status[r] = "zero" /\ Trim(stdout[r]) # <<>>)
            => /\ result[r].kind = "Ok"
               /\ result[r].text = TrimEnd(TrimStart(stdout[r]))

C6_Witness ==
    \E r \in Reqs :
        /\ CompletedByExit(r) /\ status[r] = "zero"
        /\ result[r].kind = "Ok" /\ Len(result[r].text) < Len(stdout[r])

\* C7 as stated, for the requests with no write, poll or read failure: a request
\* whose child exited with status zero, before any signal was sent to it, and
\* whose stdout is empty or whitespace returns the empty-output error.
C7_ZeroExitEmptyAlwaysEmptyOutput ==
    \A r \in Reqs :
        (Returned(r) /\ status[r] = "zero" /\ Trim(stdout[r]) = <<>>
            /\ exitPhase[r] = "before"
            /\ result[r].kind \notin {"WriteFailed", "PollFailed", "ReadFailed"})
            => result[r].kind = "EmptyOutput"

\* C7 amended: when the poll loop observed that exit and the stdout read succeeded,
\* the request returns the empty-output error; and no request ever returns a success
\* whose text is empty.
C7_ObservedEmptyIsEmptyOutput ==
    \A r \in Reqs :
        /\ (CompletedByExit(r) /\ status[r] = "zero" /\ Trim(stdout[r]) = <<>>)
              => result[r].kind = "EmptyOutput"
        /\ result[r].kind = "Ok" => result[r].text # <<>>

C7_Witness ==
    \E r \in Reqs :
        /\ CompletedByExit(r) /\ status[r] = "zero" /\ stdout[r] # <<>>
        /\ result[r].kind = "EmptyOutput"

\* C8: once the loop has taken its cancel or timeout branch, or a signal has been
\* sent, stdout is never read and the request never returns a success; stdout is
\* read only after the loop saw the exit of a child that no signal was sent to.
C8_KillBeforeReadNeverSuccess ==
    \A r \in Reqs :
        /\ (ret[r] # "none" \/ sigs[r] # <<>>)
              => /\ pc[r] \notin {"read", "join_ok", "join_readerr", "trim"}
                 /\ stdout_text[r] = <<>>
                 /\ result[r].kind \notin {"Ok", "EmptyOutput", "ReadFailed"}
        /\ (pc[r] \in {"read", "join_ok", "join_readerr", "trim"}
                \/ result[r].kind \in {"Ok", "EmptyOutput", "ReadFailed"})
              => (proc[r] = "reaped" /\ ExitedByItself(r) /\ sigs[r] = <<>>)

C8_Witness ==
    \E r \in Reqs :
        /\ Returned(r) /\ Sent(r, "TERM") /\ stdout[r] # <<>>
        /\ result[r].kind \in {"Cancelled", "TimedOut"}

\* C9: when a request returns, its drain thread, if one was started, has been
\* joined; none was started only on the returns that precede line 703.
C9_DrainJoinedBeforeReturn ==
    \A r \in Reqs :
        Returned(r) =>
            /\ drain[r] \in {"none", "joined"}
            /\ drain[r] = "none" =>
                  result[r].kind \in {"SetupFailed", "SpawnFailed", "WriteFailed"}

C9_Witness ==
    \E r1 \in Reqs : Returned(r1) /\ drain[r1] = "joined" /\ result[r1].kind = "PollFailed"

GkStates == {"gk_poll", "gk_sleep", "gk_kill", "gk_wait", "gk_ret"}

\* C11 (order): graceful_kill sends SIGTERM before anything else; the forced kill
\* follows the SIGTERM, at most once, and only when the 40 polls all found the
\* process running or a poll failed; after a forced kill graceful_kill returns only
\* with the process reaped by the blocking wait; no call makes more than 40 polls.
C11_TwoPhaseOrder ==
    \A r \in Reqs :
        /\ sigs[r] \in {<<>>, <<"TERM">>, <<"TERM", "KILL">>}
        /\ pc[r] \in GkStates => sigs[r] # <<>>
        /\ Sent(r, "KILL") => loopExit[r] \in {"exhausted", "error"}
        /\ loopExit[r] = "exhausted" => exitPhase[r] \notin {"before", "window"}
        /\ (Sent(r, "KILL") /\ pc[r] # "gk_wait") => proc[r] = "reaped"
        /\ pc[r] = "gk_ret" => proc[r] = "reaped"
        /\ polls[r] < GracePolls

\* C11: the order above always holds, and every call of graceful_kill returns
C11_TwoPhaseProtocol ==
    /\ []C11_TwoPhaseOrder
    /\ \A r \in Reqs : (pc[r] = "gk_term") ~> (pc[r] = "gk_ret")

C11_Witness ==
    \E r \in Reqs :
        /\ pc[r] = "gk_ret" /\ sigs[r] = <<"TERM", "KILL">> /\ loopExit[r] = "exhausted"
        /\ exitPhase[r] = "forced" /\ proc[r] = "reaped"

\* the states of a request that follow the block of lines 689-693
AfterWrite == {"capture", "budget", "loop_cancel", "loop_timeout", "loop_poll",
               "loop_sleep", "gk_term", "join_err", "read", "join_readerr",
               "join_ok", "trim"} \cup GkStates

\* C12 (state): past the write block the request has been written in full and stdin
\* is closed, so the poll loop starts with both done; a request that returned after
\* a spawn wrote everything or failed in the write, and its stdin is closed.
C12_WrittenAndClosed ==
    \A r \in Reqs :
        /\ sent[r] <= PayloadLen
        /\ pc[r] \in AfterWrite => (sent[r] = PayloadLen /\ ~StdinOpen(r))
        /\ (Returned(r) /\ proc[r] # "none")
              => /\ ~StdinOpen(r)
                 /\ (sent[r] = PayloadLen \/ result[r].kind = "WriteFailed")

\* C12 (step): a chunk of the request is written only inside the write block, each
\* chunk once and in order; nothing is written again once the block is left.
C12_WrittenOnce ==
    \A r \in Reqs :
        sent'[r] # sent[r] =>
            \/ (pc[r] = "write" /\ pc'[r] = "write" /\ sent'[r] = sent[r] + 1)
            \/ (pc[r] \in {"idle", "done"} /\ pc'[r] = "prepare" /\ sent'[r] = 0)

\* C12: the request is written once and in full, and stdin is closed, before the
\* first status poll; stdin is closed on every path that leaves the write block.
C12_StdinWrittenOnceThenClosed ==
    /\ []C12_WrittenAndClosed
    /\ [][C12_WrittenOnce]_vars

C12_Witness ==
    \E r \in Reqs :
        /\ pc[r] = "loop_poll" /\ sent[r] = PayloadLen /\ stdinBuf[r] = 0
        /\ proc[r] = "running" /\ ~StdinOpen(r)

\* the integer the text of the variable denotes, for the texts that denote one
OverrideCase(text) == CHOOSE c \in OverrideCases : c.text = text

BudgetResolved == budget.timeout_ms # 0

\* C13 (state): the resolved budget is the integer the variable denotes when it is
\* set and denotes an integer of at least 1000, and the default of the mode when it
\* is unset, denotes no non-negative integer, or one below 1000; it is at least 1000.
C13_OverrideOrDefault ==
    BudgetResolved =>
        /\ budget.timeout_ms =
              IF env_value # Unset /\ OverrideCase(env_value).valid
                    /\ OverrideCase(env_value).int >= 1000
              THEN OverrideCase(env_value).int
              ELSE budget.default_timeout_ms
        /\ budget.timeout_ms >= 1000

\* C13: the budget is the override or the default as above, and once resolved it
\* never changes.
C13_BudgetResolvedOnce ==
    /\ []C13_OverrideOrDefault
    /\ [][BudgetResolved => budget' = budget]_vars

C13_Witness ==
    /\ BudgetResolved
    /\ env_value = <<" ", "2", "0", "0", "0", " ">>
    /\ payload_mode = "topic-shift-detect"
    /\ budget.timeout_ms = 2000

\* the defaults and variables the modes are documented with
ModeTable(m) ==
    CASE m = "browseros-act" -> [ms |-> 180000, key |-> "HEYJAMIE_BROWSEROS_TIMEOUT_MS"]
      [] m = "browseros-navigate" -> [ms |-> 30000, key |-> "HEYJAMIE_BROWSEROS_TIMEOUT_MS"]
      [] m = "excalidraw-act" -> [ms |-> 120000, key |-> "HEYJAMIE_EXCALIDRAW_TIMEOUT_MS"]
      [] m = "browseros-intent" -> [ms |-> 90000, key |-> "HEYJAMIE_INTENT_TIMEOUT_MS"]
      [] m = "topic-shift-detect" -> [ms |-> 15000, key |-> "HEYJAMIE_TOPIC_SHIFT_TIMEOUT_MS"]
      [] OTHER -> [ms |-> 45000, key |-> "HEYJAMIE_LLM_TIMEOUT_MS"]

\* C14: a request falls into one mode at most, and its default and its variable are
\* those documented for its mode string; every other string, and no mode at all,
\* gets 45000 ms and HEYJAMIE_LLM_TIMEOUT_MS.
C14_ModeSelectsDefaultAndKey ==
    /\ Cardinality({f \in {<<1, IsBrowserosMode(payload_mode)>>,
                           <<2, IsNavigateMode(payload_mode)>>,
                           <<3, IsExcalidrawMode(payload_mode)>>,
                           <<4, IsIntentMode(payload_mode)>>,
                           <<5, IsTopicShiftMode(payload_mode)>>} : f[2]}) <= 1
    /\ budget # NoBudget =>
          /\ budget.default_timeout_ms = ModeTable(payload_mode).ms
          /\ budget.timeout_env_key = ModeTable(payload_mode).key

C14_Witness ==
    /\ payload_mode = "browseros-navigate"
    /\ budget.default_timeout_ms = 30000
    /\ budget.timeout_env_key = "HEYJAMIE_BROWSEROS_TIMEOUT_MS"

\* C15: a helper of test_mcp_config or transcribe_audio that is still running when
\* more time than the largest budget of any mode has passed since its spawn has
\* been sent the graceful signal, or its operation is at a step of its own that
\* leads to it: the operation does not just wait for the child to end.
C15_HelperBudgetEnforced ==
    \A h \in Helpers :
        (pc[h] = "h_wait" /\ proc[h] = "running" /\ elapsed[h] > BrowserosActTimeoutMs)
            => (Sent(h, "TERM") \/ ENABLED HelperTask(h))

\* canvas-service processes started by the host that are running
LiveServices == orphans + (IF proc[Svc] \in {"running", "blocked"} THEN 1 ELSE 0)

\* C16: at most one canvas-service process started by the host is running, and it
\* is the one whose handle the state holds (or the Exit handler has just taken).
C16_AtMostOneService ==
    /\ LiveServices <= 1
    /\ orphans = 0
    /\ proc[Svc] \in {"running", "blocked"}
          => (excalidraw_child = "Some" \/ pc[Svc] \in GkStates \cup {"gk_term"})
    /\ excalidraw_child = "Some" => proc[Svc] \in {"running", "exited"}

C16_Witness ==
    /\ pc[Svc] = "serving" /\ excalidraw_child = "Some" /\ proc[Svc] = "running"
    /\ LiveServices = 1

\* C17: while graceful_kill runs for the Exit handler the handle is out of the state;
\* when the handler has returned the state holds no handle and the service, if one
\* was started, has been signalled and reaped; without a handle nothing is signalled.
C17_ExitStopsService ==
    /\ pc[Svc] \in GkStates \cup {"gk_term"} => excalidraw_child = "None"
    /\ pc[Svc] = "done" =>
          /\ excalidraw_child = "None"
          /\ proc[Svc] \in {"none", "reaped"}
          /\ proc[Svc] = "reaped" => Sent(Svc, "TERM")
    /\ proc[Svc] = "none" => sigs[Svc] = <<>>

C17_Witness ==
    /\ pc[Svc] = "done" /\ proc[Svc] = "reaped" /\ excalidraw_child = "None"
    /\ sigs[Svc] = <<"TERM">> /\ status[Svc] = "signalled"

\* C18: the setup hook always completes; when mcp_config_path fails, mcp.json does
\* not parse, its excalidraw entry is missing, disabled or has no cwd string,
\* dist/server.js does not exist or the spawn fails, no handle is returned and no
\* process is spawned; a handle is returned only with a spawned process.
C18_NoHandleWithoutService ==
    pc[Svc] = "serving" =>
        /\ ( \/ ~config.path
             \/ config.file = "garbage"
             \/ (config.file = "json"
                    /\ (~config.entry \/ config.enabled = "false" \/ config.cwd # "path"))
             \/ ~config.server_js
             \/ ~config.spawn )
              => (excalidraw_child = "None" /\ proc[Svc] = "none")
        /\ excalidraw_child = "Some" => (proc[Svc] # "none" /\ config.spawn)

C18_Witness ==
    /\ pc[Svc] = "serving"
    /\ config = [path |-> TRUE, file |-> "json", entry |-> TRUE, enabled |-> "false",
                 cwd |-> "path", server_js |-> TRUE, spawn |-> TRUE]
    /\ excalidraw_child = "None" /\ proc[Svc] = "none"

\* no request has a child whose exit is still to be observed, or is about to spawn one
NoRequestInFlight == \A r \in Reqs : pc[r] \in {"idle", "done"}

\* C19 (step): cancel_llm_agent with no request in flight signals no process and
\* leaves every returned outcome as it is; the next request starts by clearing the
\* flag.
C19_CancelIsNoOp ==
    /\ (CancelLlmAgent /\ NoRequestInFlight)
          => (sigs' = sigs /\ proc' = proc /\ status' = status /\ result' = result
                /\ pc' = pc)
    /\ \A r \in Reqs : (pc[r] \in {"idle", "done"} /\ pc'[r] = "prepare")
          => ~cancel_requested'

\* C19: the step property above, and a request that started after such a call never
\* takes the cancel branch because of it.
C19_IdleCancelIsNoOp ==
    /\ [][C19_CancelIsNoOp]_vars
    /\ [](\A r \in Reqs : cancelMark[r] = "stale" => ret[r] # "cancel")

C19_Witness ==
    \E r \in Reqs :
        /\ Returned(r) /\ cancelMark[r] = "stale" /\ result[r].kind = "TimedOut"
        /\ sigs[r] = <<"TERM", "KILL">>

\* C20: for a text whose every line is blank, a timestamp range, or a marker (bare
\* or in brackets, after nothing, ">>" or a timestamp range), extract_transcript
\* returns the empty string.
C20_NonSpeechYieldsEmpty ==
    (output \in MarkerOnlyInputs /\ transcript.done) => transcript.text = <<>>

\* the lines of the text handed to extract_transcript
InputLines == Lines(output)

\* the candidate a line gives in each pass (None when the pass does not look at it),
\* cleaned
PrimaryFragmentOf(line) ==
    IF Find(line, "]") = 0 THEN None
    ELSE CleanTranscriptFragment(SubSeq(line, Find(line, "]") + 1, Len(line)))

FallbackFragmentOf(line) == CleanTranscriptFragment(line)

\* the fragments frags[i] of the lines i in kept, in the order of the lines, with one
\* space between them
JoinedInLineOrder(frags, kept) ==
    LET idx == SelectSeq([i \in 1..Len(frags) |-> i], LAMBDA i : i \in kept)
    IN  Join([j \in 1..Len(idx) |-> frags[idx[j]].value], <<" ">>)

FindLast(s, c) ==
    LET at == {i \in 1..Len(s) : s[i] = c}
    IN  IF at = {} THEN 0 ELSE CHOOSE i \in at : \A j \in at : j <= i

\* C22: for a text of one line that holds a ']', what extract_transcript returns is
\* the cleaned text that follows the last ']' of the line, when that text survives
\* cleaning.
C22_CandidateFollowsLastBracket ==
    (transcript.done /\ Len(InputLines) = 1 /\ Find(InputLines[1], "]") > 0)
        => LET line == InputLines[1]
               last == CleanTranscriptFragment(SubSeq(line, FindLast(line, "]") + 1, Len(line)))
           IN  last.some => transcript.text = last.value

\* the line clean_transcript_fragment was applied to, without its surrounding
\* whitespace and its leading ">>" marks
FragmentText == StripQuoteMarks(Trim(InputLines[fragment.line]))

\* one to three words, each of them "you" once lowercased and stripped of punctuation
OnlyYou(text) ==
    LET words == NormalizeFragmentTokens(text)
    IN  /\ Len(words) \in 1..3
        /\ \A i \in 1..Len(words) : words[i] = <<"y", "o", "u">>

\* C23: a fragment that is not empty, not a timestamp range and not a non-speech
\* marker is rejected exactly when it has one to three words that are all "you";
\* otherwise it is kept as its words joined by single spaces.
C23_OnlyYouIsDropped ==
    (fragment.line # 0 /\ FragmentText # <<>> /\ ~IsTimestampOnlyLine(FragmentText)
        /\ ~IsNonSpeechMarker(FragmentText))
        => /\ fragment.result = None <=> OnlyYou(FragmentText)
           /\ ~OnlyYou(FragmentText)
                 => fragment.result = Some(Join(SplitWhitespace(FragmentText), <<" ">>))

C23_Witness ==
    /\ fragment.line = 1
    /\ output = <<"y", "o", "u", " ", "y", "o", "u", " ", " ", "y", "o", "u", " ", "y", "o", "u">>
    /\ fragment.result = Some(<<"y", "o", "u", " ", "y", "o", "u", " ", "y", "o", "u", " ",
                                "y", "o", "u">>)

\* one line that clean_transcript_fragment returns as it is
SurvivesCleaningUnchanged ==
    Len(InputLines) = 1 /\ CleanTranscriptFragment(output) = Some(output)

\* C24 as stated: for a text of one line that survives cleaning unchanged,
\* extract_transcript returns the text, and applied to its own result returns it again.
C24_IdempotentOnCleanLine ==
    (transcript.done /\ SurvivesCleaningUnchanged)
        => /\ transcript.text = output
           /\ ExtractTranscript(transcript.text) = transcript.text

\* C24 amended: the same, for the lines that hold neither ']' nor '_'.
C24_IdempotentOnPlainCleanLine ==
    (transcript.done /\ SurvivesCleaningUnchanged
        /\ Find(output, "]") = 0 /\ Find(output, "_") = 0)
        => /\ transcript.text = output
           /\ ExtractTranscript(transcript.text) = transcript.text

C24_Witness ==
    /\ transcript.done
    /\ output = <<"H", "i", " ", "t", "h", "e", "r", "e", ".">>
    /\ transcript.text = output

\* the lines whose text after the first ']' is kept, and the lines that are not
\* blank, hold no '_' and are kept whole
PrimaryLines == {i \in 1..Len(InputLines) : PrimaryFragmentOf(InputLines[i]).some}

FallbackLines ==
    {i \in 1..Len(InputLines) :
        /\ Trim(InputLines[i]) # <<>>
        /\ \A k \in 1..Len(InputLines[i]) : InputLines[i][k] # "_"
        /\ FallbackFragmentOf(InputLines[i]).some}

\* C25: when some line gives a fragment in the primary pass the result is made of the
\* fragments of that pass alone; when none does, it is made of the whole lines that
\* are not blank and hold no underscore, and of no other line.
C25_FallbackOnlyWithoutPrimary ==
    transcript.done =>
        transcript.text =
            IF PrimaryLines # {}
            THEN JoinedInLineOrder([i \in 1..Len(InputLines) |->
                                        PrimaryFragmentOf(InputLines[i])], PrimaryLines)
            ELSE JoinedInLineOrder([i \in 1..Len(InputLines) |->
                                        FallbackFragmentOf(InputLines[i])], FallbackLines)

C25_Witness ==
    /\ transcript.done
    /\ output = <<"a", "_", "b">> \o <<"\n">> \o <<"t", "h", "a", "n", "k", " ", " ", "y", "o", "u">>
    /\ transcript.text = <<"t", "h", "a", "n", "k", " ", "y", "o", "u">>

\* the states of a request inside the poll loop of lines 756-781
PollLoop == {"loop_cancel", "loop_timeout", "loop_poll", "loop_sleep"}

\* C26: the child is never blocked in a write to its full stdout pipe while the
\* request is in its poll loop, where nothing reads that pipe.
C26_NoStallOnOutput ==
    \A r \in Reqs : ~(proc[r] = "blocked" /\ pc[r] \in PollLoop)

\* C27: every request that has started returns, whatever its child does.
C27_EveryRequestReturns ==
    \A r \in Reqs : (pc[r] = "prepare") ~> (pc[r] = "done")

\* C28 (step): an iteration reads the flag first and takes the cancel branch when
\* it is set, whatever the clock and the child; it reads the clock next and takes
\* the timeout branch when the elapsed time is greater than the budget, whatever
\* the child; only then does it poll the child, and only that poll can end the
\* loop by the child's exit.
C28_ChecksInOrder ==
    \A r \in Reqs :
        /\ (pc[r] = "loop_cancel" /\ pc'[r] # pc[r])
              => IF cancel_requested
                 THEN pc'[r] = "gk_term" /\ ret'[r] = "cancel"
                 ELSE pc'[r] = "loop_timeout" /\ ret'[r] = ret[r]
        /\ (pc[r] = "loop_timeout" /\ pc'[r] # pc[r])
              => IF elapsed[r] > timeout_ms[r]
                 THEN pc'[r] = "gk_term" /\ ret'[r] = "timeout"
                 ELSE pc'[r] = "loop_poll" /\ ret'[r] = ret[r]
        /\ (pc'[r] = "loop_timeout" /\ pc[r] # pc'[r]) => pc[r] = "loop_cancel"
        /\ (pc'[r] = "loop_poll" /\ pc[r] # pc'[r]) => pc[r] = "loop_timeout"
        /\ (pc'[r] = "read" /\ pc[r] # pc'[r]) => (pc[r] = "loop_poll" /\ ret[r] = "none")

\* C28 (state): a request whose iteration took the cancel branch returns the
\* cancelled error and one that took the timeout branch the timed-out error, also
\* when its child had already exited by itself.
C28_BranchDecidesOutcome ==
    \A r \in Reqs :
        Returned(r) =>
            /\ ret[r] = "cancel" => result[r].kind = "Cancelled"
            /\ ret[r] = "timeout" => (result[r].kind = "TimedOut" /\ elapsed[r] > timeout_ms[r])
            /\ result[r].kind \in {"Ok", "EmptyOutput", "ReadFailed"} => ret[r] = "none"

\* C28: the checks of an iteration are made in the order flag, clock, child, and the
\* first that holds decides the outcome.
C28_CancelThenTimeoutThenExit ==
    /\ [][C28_ChecksInOrder]_vars
    /\ []C28_BranchDecidesOutcome

C28_Witness ==
    \E r \in Reqs :
        /\ Returned(r) /\ result[r].kind = "Cancelled" /\ elapsed[r] > timeout_ms[r]
        /\ status[r] = "zero" /\ exitPhase[r] = "before"

\* C29: a request in its poll loop during whose flight cancel_llm_agent was called
\* finds the flag set at its next check, whatever the other tasks of the session do.
C29_CancelSeenAtNextPoll ==
    \A r \in Reqs :
        (pc[r] \in PollLoop /\ cancelMark[r] = "inflight") => cancel_requested

\* C30 (step): a signal is sent only to a process whose exit has not been collected
\* by try_wait or wait.
C30_SignalsOnlyUnreaped ==
    \A p \in Procs :
        (sigs'[p] # sigs[p] /\ sigs'[p] # <<>>) => proc[p] \in {"running", "blocked", "exited"}

\* C30 (state): graceful_kill is called, and runs up to its forced kill, with a
\* process that has not been reaped; once one of its polls has returned an exit
\* status it returns, the graceful signal being the only one sent.
C30_KillOnlyBeforeReap ==
    \A p \in Procs :
        /\ pc[p] \in {"gk_term", "gk_poll", "gk_sleep", "gk_kill"}
              => proc[p] \in {"running", "blocked", "exited"}
        /\ loopExit[p] = "exited" => (pc[p] \notin {"gk_kill", "gk_wait"} /\ ~Sent(p, "KILL"))

\* C30: no signal is ever sent to a process that has been reaped.
C30_NoSignalAfterReap ==
    /\ [][C30_SignalsOnlyUnreaped]_vars
    /\ []C30_KillOnlyBeforeReap

C30_Witness ==
    \E r \in Reqs :
        /\ pc[r] = "gk_poll" /\ sigs[r] = <<"TERM">> /\ proc[r] = "exited"
        /\ exitPhase[r] = "before" /\ ret[r] = "timeout"

\* C31: once the Exit handler has returned, no child of a run_llm_agent request or
\* of test_mcp_config is running, and neither is the canvas service.
C31_NoChildOutlivesHost ==
    ~HostRunning =>
        \A p \in Reqs \cup {McpTest, Svc} : proc[p] \notin {"running", "blocked"}

\* the value that the call returned is the line without its leading ">>" marks and
\* the whitespace around them, each run of whitespace inside it being one space;
\* it is not empty, does not start with ">>" and has no leading, trailing or
\* doubled whitespace
C32_CleanedFragmentIsNormalized ==
    fragment.result.some =>
        LET v == fragment.result.value
        IN  /\ v = Join(SplitWhitespace(StripQuoteMarks(Trim(InputLines[fragment.line]))), <<" ">>)
            /\ v # <<>>
            /\ ~StartsWith(v, <<">", ">">>)
            /\ ~IsWhitespace(v[1])
            /\ ~IsWhitespace(v[Len(v)])
            /\ \A i \in 1..(Len(v) - 1) :
                  IsWhitespace(v[i]) => v[i] = " " /\ ~IsWhitespace(v[i + 1])

\* C32: whenever clean_transcript_fragment returns Some(v), v is the normalized
\* line as above and is_non_speech_marker(v) is false.
C32_CleanedFragmentIsSpeech ==
    /\ C32_CleanedFragmentIsNormalized
    /\ fragment.result.some => ~IsNonSpeechMarker(fragment.result.value)

\* a text of ASCII characters only is returned unchanged when it fits in max_len
\* bytes, and else cut to its first max_len bytes, followed by one ellipsis
C33_AsciiTextIsTruncated ==
    (logged.done /\ \A i \in 1..Len(log_text) : Utf8Len(log_text[i]) = 1) =>
        /\ ~logged.panic
        /\ logged.value = IF Len(log_text) <= log_max_len THEN log_text
                          ELSE SubSeq(log_text, 1, log_max_len) \o <<Ellipsis>>

\* C33: for every text and every max_len truncate_for_log returns without failing:
\* the text unchanged when its byte length is at most max_len, and else its first
\* max_len bytes followed by one ellipsis character.
C33_TruncateForLogIsTotal ==
    logged.done =>
        /\ ~logged.panic
        /\ ByteLen(log_text) <= log_max_len => logged.value = log_text
        /\ ByteLen(log_text) > log_max_len =>
              \E k \in 0..Len(log_text) :
                  /\ ByteLen(SubSeq(log_text, 1, k)) = log_max_len
                  /\ logged.value = SubSeq(log_text, 1, k) \o <<Ellipsis>>

====
